---- MODULE Spec2Model ----
(***************************************************************************)
(* A model of compkit's mutable structures: the indexable binary Heap      *)
(* (compkit/structures/heap.py), the Graph / DiGraph adjacency model       *)
(* (compkit/structures/graph.py) and the UnionFind                         *)
(* (compkit/structures/union_find.py), and of the graph and array          *)
(* algorithms that run on them.                                            *)
(*                                                                         *)
(* Every method is one action.  A method that raises leaves the structure  *)
(* in the state it had reached when the exception was thrown, and `err`    *)
(* records the exception of the last call ("none" when it returned).       *)
(***************************************************************************)
EXTENDS Integers, Sequences, FiniteSets, TLC

\* ------------------------------------------------------------------ bounds
MaxUid == 3
MaxVal == 2
MaxHeap == 4
MaxInserts == 5
MaxList == 3
MaxNode == 2
MaxEdge == 2
MaxData == 1
MaxRaises == 1

\* Python's None where an index is expected: no index value is ever -2.
None == -2

Uids == 1..MaxUid
Vals == 1..MaxVal
NodeIds == 1..MaxNode
EdgeIds == 1..MaxEdge
\* the contents of a data dictionary, 0 standing for the empty dictionary {}
Datas == 0..MaxData

VARIABLES
    mode,       \* Heap.mode
    items,      \* Heap.items, a list of Node; slot i is items[i + 1]
    indices,    \* Heap.indices, uid -> slot
    err,        \* exception raised by the last call, "none" if it returned
    nIns,       \* ghost: number of insert calls that added an item
    nRem,       \* ghost: number of delete / extract calls that removed one
    src,        \* heap-sort driver: the input list
    via,        \* heap-sort driver: "heapify" or "insert"
    pos,        \* heap-sort driver: how many items of src were inserted
    out,        \* heap-sort driver: the items returned by extract, in order
    pc,         \* heap-sort driver: "build", "drain", "done" or "failed"
    kind,       \* the class of the graph object: "Graph" or "DiGraph"
    nodes,      \* Graph.nodes / DiGraph.nodes, uid -> Node data
    edges,      \* Graph.edges / DiGraph.edges, uid -> Link
    graph,      \* Graph.graph, node -> node -> set of link ids
    forwardG,   \* DiGraph.forwardG
    reverseG,   \* DiGraph.reverseG
    call,       \* ghost: the last graph method called, its id argument, and
                \* whether that id was stored when the call was made
    raised,     \* ghost: how many calls on the graph object have raised
    ret,        \* the last call of a graph algorithm on the graph as it is
                \* now, with what it returned or raised
    U,          \* the UnionFind object: its attributes items and datum
    ucall,      \* the last UnionFind call, with what it returned or raised
    added,      \* ghost: the uids passed to UnionFind.add
    united,     \* ghost: the pairs of added uids passed to UnionFind.union
    arr         \* the last call of an array algorithm: its input and result

heapVars == <<mode, items, indices, err, nIns, nRem>>
sortVars == <<src, via, pos, out, pc>>
graphVars == <<kind, nodes, edges, graph, forwardG, reverseG, call, raised, ret>>
ufVars == <<U, ucall, added, united>>
vars == <<mode, items, indices, err, nIns, nRem, src, via, pos, out, pc,
          kind, nodes, edges, graph, forwardG, reverseG, call, raised, ret,
          U, ucall, added, united, arr>>

\* ------------------------------------------------------------------- Node
\* A Node with data = {label: v}; the heap only ever reads data[label].
Node(u, v) == [uid |-> u, val |-> v]

\* ------------------------------------------------------------------- Heap
\* A heap value h is [items, indices, err]; the operators below return the
\* heap as the method leaves it.
HeapOf(its, ind) == [items |-> its, indices |-> ind, err |-> "none"]

Size(h) == Len(h.items)

At(h, i) == h.items[i + 1]

Parent(idx) == IF idx = 0 THEN None ELSE (idx - 1) \div 2

Left(h, idx) ==
    LET child == 2 * (idx + 1) - 1
    IN  IF child >= Size(h) THEN None ELSE child

Right(h, idx) ==
    LET child == 2 * (idx + 1)
    IN  IF child >= Size(h) THEN None ELSE child

Compare(x, y) ==
    IF mode = "min" THEN x.val <= y.val ELSE x.val >= y.val

\* dict assignment d[k] = v
DictSet(d, k, v) ==
    [x \in DOMAIN d \cup {k} |-> IF x = k THEN v ELSE d[x]]

\* dict.pop(k) for a key that is present
DictPop(d, k) == [x \in DOMAIN d \ {k} |-> d[x]]

Swap(h, i, j) ==
    LET its == [[h.items EXCEPT ![i + 1] = h.items[j + 1]]
                    EXCEPT ![j + 1] = h.items[i + 1]]
        ind1 == DictSet(h.indices, its[i + 1].uid, i)
        ind2 == DictSet(ind1, its[j + 1].uid, j)
    IN  [h EXCEPT !.items = its, !.indices = ind2]

RECURSIVE BubbleUpLoop(_, _, _)
BubbleUpLoop(h, c, p) ==
    IF p = None THEN h
    ELSE IF c >= Size(h) THEN [h EXCEPT !.err = "IndexError"]
    ELSE IF Compare(At(h, c), At(h, p))
         THEN BubbleUpLoop(Swap(h, c, p), p, Parent(p))
         ELSE h

BubbleUp(h, idx) == BubbleUpLoop(h, idx, Parent(idx))

\* the nested helper(i, j) of _bubble_down: p is the index it returns
Helper(h, i, j) ==
    IF Compare(At(h, i), At(h, j))
    THEN [h |-> Swap(h, i, j), p |-> i]
    ELSE [h |-> h, p |-> j]

RECURSIVE BubbleDownLoop(_, _)
BubbleDownLoop(h, p) ==
    LET l == Left(h, p)
        r == Right(h, p)
    IN  IF l = None THEN h
        ELSE LET res == IF r = None \/ Compare(At(h, l), At(h, r))
                        THEN Helper(h, l, p)
                        ELSE Helper(h, r, p)
             IN  IF res.p # p THEN BubbleDownLoop(res.h, res.p) ELSE res.h

\* _bubble_down that always descends into the left child
RECURSIVE BubbleDownLeftOnly(_, _)
BubbleDownLeftOnly(h, idx) ==
    LET l == Left(h, idx)
    IN  IF l = None THEN h
        ELSE LET res == Helper(h, l, idx)
             IN  IF res.p # idx THEN BubbleDownLeftOnly(res.h, res.p) ELSE res.h

BubbleDown(h, idx) == BubbleDownLoop(h, idx)

HeapInsert(h, item) ==
    IF item.uid \in DOMAIN h.indices THEN h
    ELSE LET h1 == [h EXCEPT !.items = Append(h.items, item),
                             !.indices = DictSet(h.indices, item.uid, Size(h))]
         IN  BubbleUp(h1, Size(h1) - 1)

HeapDelete(h, nid) ==
    IF nid \notin DOMAIN h.indices THEN h
    ELSE LET idx == h.indices[nid]
             h1 == Swap(h, idx, Size(h) - 1)
             h2 == [h1 EXCEPT !.items = SubSeq(h1.items, 1, Len(h1.items) - 1),
                              !.indices = DictPop(h1.indices, nid)]
             h3 == BubbleUp(h2, idx)
         IN  IF h3.err # "none" THEN h3 ELSE BubbleDown(h3, idx)

\* extract: the heap it leaves; the value returned is items[0] (None if empty)
HeapExtract(h) ==
    IF Size(h) = 0 THEN h ELSE HeapDelete(h, At(h, 0).uid)

HeapReplace(h, oid, new) ==
    IF oid \notin DOMAIN h.indices THEN h
    ELSE LET old_idx == h.indices[oid]
             h1 == [h EXCEPT !.items[old_idx + 1] = new,
                             !.indices = DictSet(DictPop(h.indices, oid),
                                                 new.uid, old_idx)]
             h2 == BubbleUp(h1, old_idx)
         IN  IF h2.err # "none" THEN h2 ELSE BubbleDown(h2, old_idx)

HeapReplaceRoot(h, item) ==
    IF Size(h) = 0 THEN h ELSE HeapReplace(h, At(h, 0).uid, item)

HeapModify(h, uid, v) == HeapReplace(h, uid, Node(uid, v))

RECURSIVE HeapifyLoop(_, _)
HeapifyLoop(h, idx) ==
    IF idx = None THEN [h EXCEPT !.err = "TypeError"]
    ELSE IF idx >= 0 THEN HeapifyLoop(BubbleDown(h, idx), idx - 1)
    ELSE h

Heapify(list) ==
    LET h == HeapOf(list, [u \in {list[i].uid : i \in DOMAIN list} |->
                             (CHOOSE i \in DOMAIN list :
                                 /\ list[i].uid = u
                                 /\ \A j \in DOMAIN list :
                                       list[j].uid = u => j <= i) - 1])
    IN  HeapifyLoop(h, Parent(Size(h) - 1))

\* ----------------------------------------------------- the Heap as an object
Self == HeapOf(items, indices)

Store(h) ==
    /\ items' = h.items
    /\ indices' = h.indices
    /\ err' = h.err

HeapInit ==
    /\ mode \in {"min", "max"}
    /\ items = << >>
    /\ indices = [u \in {} |-> 0]
    /\ err = "none"
    /\ nIns = 0
    /\ nRem = 0

SortIdle ==
    /\ src = << >>
    /\ via = "none"
    /\ pos = 0
    /\ out = << >>
    /\ pc = "idle"

Empty == [x \in {} |-> 0]

NoCall == [op |-> "none", id |-> 0, known |-> FALSE]

\* no algorithm was called on the graph since it last changed
NoRet == [fn |-> "none"]

GraphIdle ==
    /\ kind = "none"
    /\ nodes = Empty
    /\ edges = Empty
    /\ graph = Empty
    /\ forwardG = Empty
    /\ reverseG = Empty
    /\ call = NoCall
    /\ raised = 0
    /\ ret = NoRet

\* no UnionFind call was made
NoUCall == [op |-> "none", a |-> 0, b |-> 0, err |-> "none", val |-> None]

\* UnionFind.__init__: it annotates self.items without assigning it, so the
\* object has the attribute datum only (bound: whether items exists)
UnionFindInit ==
    /\ U = [bound |-> FALSE, items |-> {}, datum |-> Empty]
    /\ ucall = NoUCall
    /\ added = {}
    /\ united = {}

\* no array algorithm was called
NoArr == [fn |-> "none"]

LibIdle == UnionFindInit /\ arr = NoArr

Insert(u, v) ==
    /\ Len(items) < MaxHeap
    /\ nIns < MaxInserts
    /\ Store(HeapInsert(Self, Node(u, v)))
    /\ nIns' = IF u \in DOMAIN indices THEN nIns ELSE nIns + 1
    /\ UNCHANGED <<mode, nRem>>

Extract ==
    LET h == HeapExtract(Self)
    IN  /\ Store(h)
        /\ nRem' = nRem + (Len(items) - Len(h.items))
        /\ UNCHANGED <<mode, nIns>>

Delete(u) ==
    LET h == HeapDelete(Self, u)
    IN  /\ Store(h)
        /\ nRem' = nRem + (Len(items) - Len(h.items))
        /\ UNCHANGED <<mode, nIns>>

Replace(old, u, v) ==
    /\ Store(HeapReplace(Self, old, Node(u, v)))
    /\ UNCHANGED <<mode, nIns, nRem>>

ReplaceRoot(u, v) ==
    /\ Store(HeapReplaceRoot(Self, Node(u, v)))
    /\ UNCHANGED <<mode, nIns, nRem>>

Modify(u, v) ==
    /\ Store(HeapModify(Self, u, v))
    /\ UNCHANGED <<mode, nIns, nRem>>

HeapNext ==
    \/ \E u \in Uids, v \in Vals : Insert(u, v)
    \/ Extract
    \/ \E u \in Uids : Delete(u)
    \/ \E old \in Uids, u \in Uids, v \in Vals : Replace(old, u, v)
    \/ \E u \in Uids, v \in Vals : ReplaceRoot(u, v)
    \/ \E u \in Uids, v \in Vals : Modify(u, v)

Init == HeapInit /\ SortIdle /\ GraphIdle /\ LibIdle

Next == HeapNext /\ UNCHANGED <<sortVars, graphVars, ufVars, arr>>

Spec == Init /\ [][Next]_vars

\* ------------------------------------------------------------ heap sorting
\* The loop of tests/test_structures/test_heap.py: build a heap from a list of
\* items with pairwise distinct uids (Heap.heapify, or insert item by item),
\* then extract until heap.empty().
DistinctLists ==
    UNION {{s \in [1..n -> [uid : Uids, val : Vals]] :
                \A i, j \in 1..n : i # j => s[i].uid # s[j].uid} :
           n \in 0..MaxList}

SortInit ==
    /\ HeapInit
    /\ GraphIdle
    /\ LibIdle
    /\ src \in DistinctLists
    /\ via \in {"heapify", "insert"}
    /\ pos = 0
    /\ out = << >>
    /\ pc = "build"

SortHeapify ==
    /\ pc = "build"
    /\ via = "heapify"
    /\ LET h == Heapify(src)
       IN  /\ Store(h)
           /\ pc' = IF h.err = "none" THEN "drain" ELSE "failed"
    /\ nIns' = Len(src)
    /\ pos' = Len(src)
    /\ UNCHANGED <<mode, nRem, src, via, out, graphVars, ufVars, arr>>

SortInsert ==
    /\ pc = "build"
    /\ via = "insert"
    /\ pos < Len(src)
    /\ LET h == HeapInsert(Self, src[pos + 1])
       IN  /\ Store(h)
           /\ nIns' = nIns + (Len(h.items) - Len(items))
           /\ pc' = IF h.err = "none" THEN "build" ELSE "failed"
    /\ pos' = pos + 1
    /\ UNCHANGED <<mode, nRem, src, via, out, graphVars, ufVars, arr>>

SortInserted ==
    /\ pc = "build"
    /\ via = "insert"
    /\ pos = Len(src)
    /\ pc' = "drain"
    /\ UNCHANGED <<heapVars, src, via, pos, out, graphVars, ufVars, arr>>

SortExtract ==
    /\ pc = "drain"
    /\ Len(items) # 0
    /\ LET h == HeapExtract(Self)
       IN  /\ Store(h)
           /\ nRem' = nRem + (Len(items) - Len(h.items))
           /\ pc' = IF h.err = "none" THEN "drain" ELSE "failed"
    /\ out' = Append(out, items[1])
    /\ UNCHANGED <<mode, nIns, src, via, pos, graphVars, ufVars, arr>>

SortFinish ==
    /\ pc = "drain"
    /\ Len(items) = 0
    /\ pc' = "done"
    /\ UNCHANGED <<heapVars, src, via, pos, out, graphVars, ufVars, arr>>

SortNext ==
    \/ SortHeapify
    \/ SortInsert
    \/ SortInserted
    \/ SortExtract
    \/ SortFinish

SortSpec == SortInit /\ [][SortNext]_vars

\* ---------------------------------------------------------- Graph / DiGraph
\* An adjacency map graph[x] is a defaultdict(set): a dict keeps its keys in
\* insertion order, so it is the sequence of its entries [k, es].
OdKeys(m) == [i \in 1..Len(m) |-> m[i].k]

OdHas(m, k) == \E i \in 1..Len(m) : m[i].k = k

OdGet(m, k) == m[CHOOSE i \in 1..Len(m) : m[i].k = k].es

\* m.get(k, [])
OdGetOr(m, k) == IF OdHas(m, k) THEN OdGet(m, k) ELSE {}

\* m[k] of a defaultdict(set): a missing key is created with an empty set
OdTouch(m, k) == IF OdHas(m, k) THEN m ELSE Append(m, [k |-> k, es |-> {}])

OdPut(m, k, s) == [i \in 1..Len(m) |-> IF m[i].k = k THEN [k |-> k, es |-> s] ELSE m[i]]

\* m.pop(k) for a key that is present
OdPop(m, k) == SelectSeq(m, LAMBDA r : r.k # k)

\* The orders in which a set of link ids can be iterated: list(s) and
\* "for eid in s" follow the order perm restricted to s.
Perms == {p \in [1..MaxEdge -> EdgeIds] : \A i, j \in 1..MaxEdge : i # j => p[i] # p[j]}

ToList(s, perm) == SelectSeq(perm, LAMBDA e : e \in s)

\* Node(uid).data == {} ; data[key] of contract_edge is the field multinode,
\* the empty set standing for "key not in data".
NodeData(v) == [val |-> v, multinode |-> {}]

Link(uid, xid, yid, data) == [uid |-> uid, xid |-> xid, yid |-> yid, data |-> data]

\* A graph value g is [nodes, edges, graph, forwardG, reverseG, err].
Raise(g, e) == [g EXCEPT !.err = e]

\* index[a][b].add(eid)
IxAdd(ix, a, b, eid) ==
    LET m == OdTouch(ix[a], b)
    IN  [ix EXCEPT ![a] = OdPut(m, b, OdGet(m, b) \cup {eid})]

\* index[a][b].remove(eid): the index it leaves and the exception it raises
IxRemove(ix, a, b, eid) ==
    IF a \notin DOMAIN ix THEN [ix |-> ix, err |-> "KeyError"]
    ELSE LET m == OdTouch(ix[a], b)
         IN  IF eid \in OdGet(m, b)
             THEN [ix |-> [ix EXCEPT ![a] = OdPut(m, b, OdGet(m, b) \ {eid})],
                   err |-> "none"]
             ELSE [ix |-> [ix EXCEPT ![a] = m], err |-> "KeyError"]

\* for eid in eids: self.edges.pop(eid)
RECURSIVE PopEach(_, _)
PopEach(es, list) ==
    IF list = << >> THEN [edges |-> es, err |-> "none"]
    ELSE IF Head(list) \notin DOMAIN es THEN [edges |-> es, err |-> "KeyError"]
    ELSE PopEach(DictPop(es, Head(list)), Tail(list))

\* for yid in keys: eids = index[yid].pop(xid); for eid in eids: edges.pop(eid)
\* iterating != "" names the dict being iterated when it is index[xid] itself:
\* popping xid from it makes the next step of the iteration raise.
RECURSIVE PopLoop(_, _, _, _, _, _)
PopLoop(ix, es, xid, keys, perm, sameDict) ==
    IF keys = << >> THEN [ix |-> ix, edges |-> es, err |-> "none"]
    ELSE LET yid == Head(keys)
         IN  IF yid \notin DOMAIN ix \/ ~OdHas(ix[yid], xid)
             THEN [ix |-> ix, edges |-> es, err |-> "KeyError"]
             ELSE LET ix1 == [ix EXCEPT ![yid] = OdPop(ix[yid], xid)]
                      r == PopEach(es, ToList(OdGet(ix[yid], xid), perm))
                  IN  IF r.err # "none"
                      THEN [ix |-> ix1, edges |-> r.edges, err |-> r.err]
                      ELSE IF sameDict /\ yid = xid
                      THEN [ix |-> ix1, edges |-> r.edges, err |-> "RuntimeError"]
                      ELSE PopLoop(ix1, r.edges, xid, Tail(keys), perm, sameDict)

\* ---- Graph
\* add_node without the "already present" test
AddNodeReplacing(g, uid, data) ==
    [g EXCEPT !.nodes = DictSet(g.nodes, uid, data),
              !.graph = DictSet(g.graph, uid, << >>)]

AddNode(g, uid, data) ==
    IF uid \in DOMAIN g.nodes THEN g
    ELSE [g EXCEPT !.nodes = DictSet(g.nodes, uid, data),
                   !.graph = DictSet(g.graph, uid, << >>)]

AddEdge(g, e) ==
    IF e.uid \in DOMAIN g.edges THEN g
    ELSE LET g1 == AddNode(AddNode(g, e.xid, NodeData(0)), e.yid, NodeData(0))
         IN  [g1 EXCEPT !.edges = DictSet(g1.edges, e.uid, e),
                        !.graph = IxAdd(IxAdd(g1.graph, e.xid, e.yid, e.uid),
                                        e.yid, e.xid, e.uid)]

RemoveEdge(g, eid) ==
    IF eid \notin DOMAIN g.edges THEN g
    ELSE LET e == g.edges[eid]
             r1 == IxRemove(g.graph, e.xid, e.yid, eid)
             r2 == IxRemove(r1.ix, e.yid, e.xid, eid)
         IN  IF r1.err # "none" THEN [g EXCEPT !.graph = r1.ix, !.err = r1.err]
             ELSE IF r2.err # "none" THEN [g EXCEPT !.graph = r2.ix, !.err = r2.err]
             ELSE [g EXCEPT !.graph = r2.ix, !.edges = DictPop(g.edges, eid)]

RECURSIVE RemoveEdges(_, _)
RemoveEdges(g, list) ==
    IF list = << >> THEN g
    ELSE LET g1 == RemoveEdge(g, Head(list))
         IN  IF g1.err # "none" THEN g1 ELSE RemoveEdges(g1, Tail(list))

RemoveNode(g, xid, perm) ==
    IF xid \notin DOMAIN g.nodes THEN g
    ELSE LET r == PopLoop(g.graph, g.edges, xid, OdKeys(g.graph[xid]), perm, TRUE)
         IN  IF r.err # "none"
             THEN [g EXCEPT !.graph = r.ix, !.edges = r.edges, !.err = r.err]
             ELSE [g EXCEPT !.graph = DictPop(r.ix, xid), !.edges = r.edges,
                            !.nodes = DictPop(g.nodes, xid)]

\* the loop of contract_edge over adjacent(yid); get_edges_between returns link
\* ids, so Link(f.uid, ...) raises AttributeError as soon as the list has an
\* element.
RECURSIVE ContractLoop(_, _, _, _, _)
ContractLoop(g, xid, yid, zs, perm) ==
    IF zs = << >> THEN g
    ELSE LET zid == Head(zs)
         IN  IF zid \notin DOMAIN g.nodes THEN Raise(g, "KeyError")
             ELSE LET es == ToList(OdGetOr(g.graph[yid], zid), perm)
                      g1 == RemoveEdges(g, es)
                  IN  IF g1.err # "none" THEN g1
                      ELSE IF es # << >> THEN Raise(g1, "AttributeError")
                      ELSE ContractLoop(g1, xid, yid, Tail(zs), perm)

ContractEdge(g, eid, perm) ==
    IF eid \notin DOMAIN g.edges THEN g
    ELSE LET xid == g.edges[eid].xid
             yid == g.edges[eid].yid
         IN  IF xid \notin DOMAIN g.nodes \/ yid \notin DOMAIN g.nodes
             THEN Raise(g, "KeyError")
             ELSE LET mx == IF g.nodes[xid].multinode # {}
                            THEN g.nodes[xid].multinode ELSE {xid}
                      my == IF g.nodes[yid].multinode # {}
                            THEN g.nodes[yid].multinode ELSE {yid}
                      g1 == [g EXCEPT !.nodes[xid].multinode = mx \cup my]
                      g2 == RemoveEdge(g1, eid)
                      g3 == ContractLoop(g2, xid, yid, OdKeys(g2.graph[yid]), perm)
                  IN  IF g2.err # "none" THEN g2
                      ELSE IF g3.err # "none" THEN g3
                      ELSE RemoveNode(g3, yid, perm)

\* adjacent(x) as a set, for x in G
Adjacent(x) == {graph[x][i].k : i \in 1..Len(graph[x])}

\* neighbors(x, y)
Neighbors(x, y) ==
    IF x \notin DOMAIN nodes \/ y \notin DOMAIN nodes THEN FALSE
    ELSE OdHas(graph[x], y)

\* ---- DiGraph
DiAddNode(g, uid, data) ==
    IF uid \in DOMAIN g.nodes THEN g
    ELSE [g EXCEPT !.nodes = DictSet(g.nodes, uid, data),
                   !.forwardG = DictSet(g.forwardG, uid, << >>),
                   !.reverseG = DictSet(g.reverseG, uid, << >>)]

\* add_edge that indexes the link in forwardG only
DiAddEdgeForwardOnly(g, e) ==
    IF e.uid \in DOMAIN g.edges THEN g
    ELSE LET g1 == DiAddNode(DiAddNode(g, e.xid, NodeData(0)), e.yid, NodeData(0))
         IN  [g1 EXCEPT !.edges = DictSet(g1.edges, e.uid, e),
                        !.forwardG = IxAdd(g1.forwardG, e.xid, e.yid, e.uid)]

DiAddEdge(g, e) ==
    IF e.uid \in DOMAIN g.edges THEN g
    ELSE LET g1 == DiAddNode(DiAddNode(g, e.xid, NodeData(0)), e.yid, NodeData(0))
         IN  [g1 EXCEPT !.edges = DictSet(g1.edges, e.uid, e),
                        !.forwardG = IxAdd(g1.forwardG, e.xid, e.yid, e.uid),
                        !.reverseG = IxAdd(g1.reverseG, e.yid, e.xid, e.uid)]

DiRemoveEdge(g, eid) ==
    IF eid \notin DOMAIN g.edges THEN g
    ELSE LET e == g.edges[eid]
             r1 == IxRemove(g.forwardG, e.xid, e.yid, eid)
             r2 == IxRemove(g.reverseG, e.yid, e.xid, eid)
         IN  IF r1.err # "none" THEN [g EXCEPT !.forwardG = r1.ix, !.err = r1.err]
             ELSE IF r2.err # "none"
             THEN [g EXCEPT !.forwardG = r1.ix, !.reverseG = r2.ix, !.err = r2.err]
             ELSE [g EXCEPT !.forwardG = r1.ix, !.reverseG = r2.ix,
                            !.edges = DictPop(g.edges, eid)]

DiRemoveNode(g, xid, perm) ==
    IF xid \notin DOMAIN g.nodes THEN g
    ELSE LET r1 == PopLoop(g.reverseG, g.edges, xid, OdKeys(g.forwardG[xid]),
                           perm, FALSE)
             fwd == DictPop(g.forwardG, xid)
             r2 == PopLoop(fwd, r1.edges, xid, OdKeys(r1.ix[xid]), perm, FALSE)
         IN  IF r1.err # "none"
             THEN [g EXCEPT !.reverseG = r1.ix, !.edges = r1.edges, !.err = r1.err]
             ELSE IF r2.err # "none"
             THEN [g EXCEPT !.forwardG = r2.ix, !.reverseG = r1.ix,
                            !.edges = r2.edges, !.err = r2.err]
             ELSE [g EXCEPT !.forwardG = r2.ix, !.reverseG = DictPop(r1.ix, xid),
                            !.edges = r2.edges, !.nodes = DictPop(g.nodes, xid)]

\* transpose that reverses the links and leaves the two indices in place
DiTransposeLinksOnly(g) ==
    [g EXCEPT !.edges = [u \in DOMAIN g.edges |->
                            Link(u, g.edges[u].yid, g.edges[u].xid, g.edges[u].data)]]

\* transpose(inplace=True)
DiTranspose(g) ==
    [g EXCEPT !.edges = [u \in DOMAIN g.edges |->
                            Link(u, g.edges[u].yid, g.edges[u].xid, g.edges[u].data)],
              !.forwardG = g.reverseG,
              !.reverseG = g.forwardG]

\* adjacent(x) and coadjacent(x) of a DiGraph as sets, for x in D
DiAdjacent(x) == {forwardG[x][i].k : i \in 1..Len(forwardG[x])}

DiCoadjacent(x) == {reverseG[x][i].k : i \in 1..Len(reverseG[x])}

\* ---- the graph object and its methods
GSelf ==
    [nodes |-> nodes, edges |-> edges, graph |-> graph,
     forwardG |-> forwardG, reverseG |-> reverseG, err |-> "none"]

\* The caller goes on after catching an exception, MaxRaises times at most.
GStore(g) ==
    /\ raised <= MaxRaises
    /\ raised' = IF g.err = "none" THEN raised ELSE raised + 1
    /\ nodes' = g.nodes
    /\ edges' = g.edges
    /\ graph' = g.graph
    /\ forwardG' = g.forwardG
    /\ reverseG' = g.reverseG
    /\ err' = g.err
    /\ ret' = NoRet

Called(op, id, known) == call' = [op |-> op, id |-> id, known |-> known]

HeapIdle ==
    /\ mode = "min"
    /\ items = << >>
    /\ indices = Empty
    /\ err = "none"
    /\ nIns = 0
    /\ nRem = 0

GraphInit ==
    /\ HeapIdle
    /\ SortIdle
    /\ LibIdle
    /\ kind \in {"Graph", "DiGraph"}
    /\ nodes = Empty
    /\ edges = Empty
    /\ graph = Empty
    /\ forwardG = Empty
    /\ reverseG = Empty
    /\ call = NoCall
    /\ raised = 0
    /\ ret = NoRet

others == <<mode, items, indices, nIns, nRem, src, via, pos, out, pc, kind,
            ufVars, arr>>

add_node(x, v) ==
    /\ GStore(IF kind = "Graph" THEN AddNode(GSelf, x, NodeData(v))
                                ELSE DiAddNode(GSelf, x, NodeData(v)))
    /\ Called("add_node", x, x \in DOMAIN nodes)
    /\ UNCHANGED others

add_edge(e) ==
    /\ GStore(IF kind = "Graph" THEN AddEdge(GSelf, e) ELSE DiAddEdge(GSelf, e))
    /\ Called("add_edge", e.uid, e.uid \in DOMAIN edges)
    /\ UNCHANGED others

remove_node(x, perm) ==
    /\ GStore(IF kind = "Graph" THEN RemoveNode(GSelf, x, perm)
                                ELSE DiRemoveNode(GSelf, x, perm))
    /\ Called("remove_node", x, x \in DOMAIN nodes)
    /\ UNCHANGED others

remove_edge(eid) ==
    /\ GStore(IF kind = "Graph" THEN RemoveEdge(GSelf, eid)
                                ELSE DiRemoveEdge(GSelf, eid))
    /\ Called("remove_edge", eid, eid \in DOMAIN edges)
    /\ UNCHANGED others

contract_edge(eid, perm) ==
    /\ kind = "Graph"
    /\ GStore(ContractEdge(GSelf, eid, perm))
    /\ Called("contract_edge", eid, eid \in DOMAIN edges)
    /\ UNCHANGED others

transpose ==
    /\ kind = "DiGraph"
    /\ GStore(DiTranspose(GSelf))
    /\ Called("transpose", 0, TRUE)
    /\ UNCHANGED others

CoreNext ==
    \/ \E x \in NodeIds, v \in Datas : add_node(x, v)
    \/ \E u \in EdgeIds, x \in NodeIds, y \in NodeIds, d \in Datas :
          add_edge(Link(u, x, y, d))
    \/ \E x \in NodeIds, perm \in Perms : remove_node(x, perm)
    \/ \E u \in EdgeIds : remove_edge(u)
    \/ transpose

GraphNext ==
    \/ CoreNext
    \/ \E u \in EdgeIds, perm \in Perms : contract_edge(u, perm)

\* add_node, add_edge, remove_node, remove_edge on a Graph or a DiGraph, and
\* transpose on a DiGraph
CoreSpec == GraphInit /\ [][CoreNext]_vars

DiGraphInit == GraphInit /\ kind = "DiGraph"

\* a DiGraph alone
DiGraphSpec == DiGraphInit /\ [][CoreNext]_vars

\* the same with contract_edge on a Graph
GraphSpec == GraphInit /\ [][GraphNext]_vars

\* ------------------------------------------------------------------ claims

\* C1: in min or max mode, after any sequence of insert, extract, replace,
\* replaceroot, delete and modify calls, every non-root slot i holds a label
\* value that is >= (min mode) or <= (max mode) the one of its parent slot
\* (i - 1) div 2; equal values are allowed.
C1_HeapOrder ==
    \A i \in 1..(Len(items) - 1) :
        LET p == (i - 1) \div 2
        IN  IF mode = "min"
            THEN items[p + 1].val <= items[i + 1].val
            ELSE items[p + 1].val >= items[i + 1].val

\* a heap of two levels below the root, with unequal label values, reached
\* after at least one removal
C1_Witness ==
    /\ Len(items) >= 4
    /\ nRem >= 1
    /\ err = "none"
    /\ items[1].val # items[4].val
    /\ items[2].val # items[3].val

\* C2: indices maps every uid in the heap to exactly the slot whose item has
\* that uid, no uid occupies two slots, and size() equals the number of
\* successful inserts minus the number of successful deletes and extracts.
C2_IndicesInverse ==
    /\ \A i \in 1..Len(items) :
          /\ items[i].uid \in DOMAIN indices
          /\ indices[items[i].uid] = i - 1
    /\ \A u \in DOMAIN indices :
          /\ indices[u] \in 0..(Len(items) - 1)
          /\ items[indices[u] + 1].uid = u
    /\ \A i, j \in 1..Len(items) : i # j => items[i].uid # items[j].uid
    /\ Len(items) = nIns - nRem

\* C10: a heap built from a list of items with pairwise distinct uids, by
\* heapify or by successive inserts, then emptied by repeated extract, returns
\* every item exactly once, label values non-decreasing in min mode and
\* non-increasing in max mode; no call raises on the way.
C10_SortedExtraction ==
    /\ pc # "failed"
    /\ pc = "done" =>
          /\ Len(out) = Len(src)
          /\ \A i \in 1..Len(src) : \E j \in 1..Len(out) : out[j] = src[i]
          /\ \A i \in 1..(Len(out) - 1) :
                IF mode = "min"
                THEN out[i].val <= out[i + 1].val
                ELSE out[i].val >= out[i + 1].val

\* ---- helpers of the graph claims
\* the link ids stored in an adjacency map, under any key
IndexedIn(ix) ==
    UNION {UNION {ix[x][i].es : i \in 1..Len(ix[x])} : x \in DOMAIN ix}

\* link e joins x and y, in either direction
Joins(e, x, y) ==
    \/ e.xid = x /\ e.yid = y
    \/ e.xid = y /\ e.yid = x

Incident(e, x) == e.xid = x \/ e.yid = x

IsCall(op, known) == call'.op = op /\ call'.known = known

\* C3: in an undirected Graph, after any sequence of add_node, add_edge,
\* remove_node, remove_edge and contract_edge calls, every stored Link e has
\* e.uid in graph[e.xid][e.yid] and in graph[e.yid][e.xid], and every node id
\* and link id that appears in the adjacency index is a key of nodes, of edges.
C3_GraphIndexInvariant ==
    kind = "Graph" =>
        /\ \A u \in DOMAIN edges :
              LET e == edges[u]
              IN  /\ e.xid \in DOMAIN graph
                  /\ e.yid \in DOMAIN graph
                  /\ u \in OdGetOr(graph[e.xid], e.yid)
                  /\ u \in OdGetOr(graph[e.yid], e.xid)
        /\ \A x \in DOMAIN graph :
              /\ x \in DOMAIN nodes
              /\ \A i \in 1..Len(graph[x]) :
                    /\ graph[x][i].k \in DOMAIN nodes
                    /\ graph[x][i].es \subseteq DOMAIN edges

\* C4: in a DiGraph, after any sequence of add_node, add_edge, remove_node,
\* remove_edge and in-place transpose calls, every stored Link e has e.uid in
\* forward[e.xid][e.yid] and in reverse[e.yid][e.xid], and for all nodes x, y:
\* y is in adjacent(x) if and only if x is in coadjacent(y).
C4_DiGraphIndexInvariant ==
    kind = "DiGraph" =>
        /\ \A u \in DOMAIN edges :
              LET e == edges[u]
              IN  /\ e.xid \in DOMAIN forwardG
                  /\ e.yid \in DOMAIN reverseG
                  /\ u \in OdGetOr(forwardG[e.xid], e.yid)
                  /\ u \in OdGetOr(reverseG[e.yid], e.xid)
        /\ DOMAIN forwardG = DOMAIN nodes
        /\ DOMAIN reverseG = DOMAIN nodes
        /\ \A x, y \in DOMAIN nodes :
              y \in DiAdjacent(x) <=> x \in DiCoadjacent(y)

\* a DiGraph just transposed that holds a self-loop and a link between two
\* different nodes
C4_Witness ==
    /\ kind = "DiGraph"
    /\ call.op = "transpose"
    /\ \E u, w \in DOMAIN edges :
          /\ edges[u].xid = edges[u].yid
          /\ edges[w].xid # edges[w].yid

\* C5: contract_edge(e) for a stored link e = (x, y) with x # y returns
\* normally with y removed and x kept, every link f that joined y to a node z
\* other than x replaced by a link with the same uid and data joining x and
\* z, e and every other link between x and y dropped, and x.data[key] the
\* union of the membership sets of x and y.  Stated for the calls made on a
\* graph that stores no self-loop and on which no call has raised.
C5_ContractEdge ==
    [][(/\ IsCall("contract_edge", TRUE)
        /\ raised = 0
        /\ \A u \in DOMAIN edges : edges[u].xid # edges[u].yid)
       =>
       LET x == edges[call'.id].xid
           y == edges[call'.id].yid
           mx == IF nodes[x].multinode # {} THEN nodes[x].multinode ELSE {x}
           my == IF nodes[y].multinode # {} THEN nodes[y].multinode ELSE {y}
       IN  /\ err' = "none"
           /\ DOMAIN nodes' = DOMAIN nodes \ {y}
           /\ nodes'[x] = [nodes[x] EXCEPT !.multinode = mx \cup my]
           /\ DOMAIN edges' = {u \in DOMAIN edges : ~Joins(edges[u], x, y)}
           /\ \A u \in DOMAIN edges' :
                 /\ edges'[u].data = edges[u].data
                 /\ IF Incident(edges[u], y)
                    THEN \E z \in DOMAIN nodes \ {x, y} :
                            /\ Joins(edges[u], y, z)
                            /\ Joins(edges'[u], x, z)
                    ELSE edges'[u] = edges[u]]_vars

\* C6: remove_node(x) on a Graph or DiGraph that contains x returns normally
\* and removes x together with exactly the links incident to x (self-loops at
\* x included), leaving every other node and link in place.
C6_RemoveNode ==
    [][(IsCall("remove_node", TRUE) /\ raised = 0)
       =>
       LET x == call'.id
       IN  /\ err' = "none"
           /\ DOMAIN nodes' = DOMAIN nodes \ {x}
           /\ \A z \in DOMAIN nodes' : nodes'[z] = nodes[z]
           /\ DOMAIN edges' = {u \in DOMAIN edges : ~Incident(edges[u], x)}
           /\ \A u \in DOMAIN edges' : edges'[u] = edges[u]]_vars

\* C7: remove_edge(e) on a Graph or DiGraph for a stored link e (a self-loop
\* included) returns normally, removes e.uid from edges and from every
\* adjacency-index set, and leaves all nodes and all other links unchanged.
C7_RemoveEdge ==
    [][(IsCall("remove_edge", TRUE) /\ raised = 0)
       =>
       LET u == call'.id
       IN  /\ err' = "none"
           /\ DOMAIN edges' = DOMAIN edges \ {u}
           /\ \A w \in DOMAIN edges' : edges'[w] = edges[w]
           /\ nodes' = nodes
           /\ u \notin IndexedIn(graph')
           /\ u \notin IndexedIn(forwardG')
           /\ u \notin IndexedIn(reverseG')]_vars

\* C8: on a Graph and on a DiGraph, add_node with a uid already present,
\* add_edge with a link uid already present, remove_node of an absent id and
\* remove_edge of an absent id raise nothing and leave nodes, edges and the
\* adjacency indices exactly as they were; add_edge of a new link whose
\* endpoints are absent creates those nodes with empty data.
C8_SilentNoOps ==
    [][/\ (\/ IsCall("add_node", TRUE)
           \/ IsCall("add_edge", TRUE)
           \/ IsCall("remove_node", FALSE)
           \/ IsCall("remove_edge", FALSE))
          => /\ err' = "none"
             /\ UNCHANGED <<nodes, edges, graph, forwardG, reverseG>>
       /\ IsCall("add_edge", FALSE)
          => /\ err' = "none"
             /\ call'.id \in DOMAIN edges'
             /\ \A z \in {edges'[call'.id].xid, edges'[call'.id].yid} :
                   /\ z \in DOMAIN nodes'
                   /\ z \notin DOMAIN nodes => nodes'[z] = NodeData(0)
             /\ \A z \in DOMAIN nodes : nodes'[z] = nodes[z]]_vars

\* add_node was called with the uid of a stored node that has data and links
C8_Witness ==
    /\ call.op = "add_node"
    /\ call.known
    /\ err = "none"
    /\ nodes[call.id].val # 0
    /\ \E u \in DOMAIN edges : Incident(edges[u], call.id)

\* C9: in every Graph state reachable by add_node, add_edge, remove_node and
\* remove_edge, y is in adjacent(x) (equivalently neighbors(x, y)) exactly
\* when at least one stored link joins x and y.
C9_AdjacentIffLinked ==
    (kind = "Graph" /\ raised = 0) =>
        \A x, y \in DOMAIN nodes :
            LET linked == \E u \in DOMAIN edges : Joins(edges[u], x, y)
            IN  /\ y \in Adjacent(x) <=> linked
                /\ Neighbors(x, y) <=> linked

\* C11: delete(item) of an item present in the heap, whatever slot it holds
\* (the last slot of a heap of two or more items included), returns normally
\* with exactly that item removed, every other item kept and the heap order
\* holding; delete of an absent item changes nothing.  Stated for heaps whose
\* indices map is the inverse of the slots.
C11_DeleteReturns ==
    [][\A u \in Uids :
          (Delete(u) /\ err = "none"
             /\ \A i \in 1..Len(items) :
                   /\ items[i].uid \in DOMAIN indices
                   /\ indices[items[i].uid] = i - 1)
          => IF u \in DOMAIN indices
             THEN /\ err' = "none"
                  /\ Len(items') = Len(items) - 1
                  /\ \A i \in 1..Len(items) :
                        items[i].uid # u
                        => \E j \in 1..Len(items') : items'[j] = items[i]
                  /\ \A j \in 1..Len(items') : items'[j].uid # u
                  /\ u \notin DOMAIN indices'
                  /\ \A i \in 1..(Len(items') - 1) :
                        LET q == (i - 1) \div 2
                        IN  IF mode = "min"
                            THEN items'[q + 1].val <= items'[i + 1].val
                            ELSE items'[q + 1].val >= items'[i + 1].val
             ELSE /\ err' = "none"
                  /\ items' = items
                  /\ indices' = indices]_vars

\* C12: heapify(items, label, mode), for every list of items with pairwise
\* distinct uids and of any length (0 and 1 included), returns a heap that
\* holds exactly those items, whose indices map is the inverse of the slot
\* positions, and in which the heap order holds.
C12_HeapifyBuilds ==
    (via = "heapify" /\ pc # "build" /\ out = << >>)
    => /\ err = "none"
       /\ pc # "failed"
       /\ Len(items) = Len(src)
       /\ \A i \in 1..Len(src) : \E j \in 1..Len(items) : items[j] = src[i]
       /\ DOMAIN indices = {src[i].uid : i \in 1..Len(src)}
       /\ \A i \in 1..Len(items) : indices[items[i].uid] = i - 1
       /\ \A i \in 1..(Len(items) - 1) :
             LET q == (i - 1) \div 2
             IN  IF mode = "min"
                 THEN items[q + 1].val <= items[i + 1].val
                 ELSE items[q + 1].val >= items[i + 1].val

\* ------------------------------------------------------- graph algorithms
\* The algorithms read a graph value g through its public accessors and never
\* change it.  Each returns a record with err, the exception raised ("none"
\* when it returned), none, whether it returned None, and the value returned
\* in a field named after its kind (set, comps, bool, order, dist, table).

\* the bounds of the graphs the algorithms are run on
MaxAlgNode == 3
MaxAlgEdge == 3
MaxWeight == 1

AlgNodes == 1..MaxAlgNode
AlgEdges == 1..MaxAlgEdge
Weights == (0 - MaxWeight)..MaxWeight

\* none: the call returned None
ReturnsSet(v) == [set |-> v, none |-> FALSE, err |-> "none"]

ReturnsComps(v) == [comps |-> v, none |-> FALSE, err |-> "none"]

ReturnsBool(v) == [bool |-> v, none |-> FALSE, err |-> "none"]

ReturnsOrder(v) == [order |-> v, none |-> FALSE, err |-> "none"]

ReturnsDist(v) == [dist |-> v, none |-> FALSE, err |-> "none"]

ReturnsTable(v) == [table |-> v, none |-> FALSE, err |-> "none"]

ReturnsNone == [none |-> TRUE, err |-> "none"]

Raises(e) == [none |-> FALSE, err |-> e]

\* The optional argument ignore: None by default, or a set of node ids.
NoIgnore == [none |-> TRUE, ids |-> {}]

Ignoring(ids) == [none |-> FALSE, ids |-> ids]

\* G.get_nodes(): the keys of G.nodes in insertion order; the order is an
\* input, one of the enumerations of the keys.
NodeOrders(g) ==
    {o \in [1..Cardinality(DOMAIN g.nodes) -> DOMAIN g.nodes] :
        \A i, j \in DOMAIN o : i # j => o[i] # o[j]}

\* G.get_edges(): the keys of G.edges in insertion order, which is the order
\* of the ids when links are added with increasing ids.
RECURSIVE EdgeList(_)
EdgeList(ids) ==
    IF ids = {} THEN << >>
    ELSE LET m == CHOOSE u \in ids : \A w \in ids : u <= w
         IN  <<m>> \o EdgeList(ids \ {m})

\* G.adjacent(x) for x in G: the keys of the adjacency map of x, in order
AdjList(g, x) ==
    IF kind = "Graph" THEN OdKeys(g.graph[x]) ELSE OdKeys(g.forwardG[x])

\* D.coadjacent(x) for x in D
CoadjList(g, x) == OdKeys(g.reverseG[x])

\* ---- traversal.py
\* for y in G.adjacent(x): if y not in explored and y not in ignore: ...
RECURSIVE BfsScan(_, _, _, _)
BfsScan(ys, explored, queue, ign) ==
    IF ys = << >> THEN [explored |-> explored, queue |-> queue]
    ELSE LET y == Head(ys)
         IN  IF y \notin explored /\ y \notin ign
             THEN BfsScan(Tail(ys), explored \cup {y}, Append(queue, y), ign)
             ELSE BfsScan(Tail(ys), explored, queue, ign)

RECURSIVE BfsLoop(_, _, _, _)
BfsLoop(g, queue, explored, ign) ==
    IF queue = << >> THEN explored
    ELSE LET r == BfsScan(AdjList(g, Head(queue)), explored, Tail(queue), ign)
         IN  BfsLoop(g, r.queue, r.explored, ign)

breadth_first_search(g, s, ignore) ==
    IF s \notin DOMAIN g.nodes THEN Raises("KeyError")
    ELSE ReturnsSet(BfsLoop(g, <<s>>, {s}, IF ignore.none THEN {} ELSE ignore.ids))

\* iteration(): the stack is a list, popped at its end
RECURSIVE DfsLoop(_, _, _, _)
DfsLoop(g, stack, explored, ign) ==
    IF stack = << >> THEN explored
    ELSE LET x == stack[Len(stack)]
             r == BfsScan(AdjList(g, x), explored,
                          SubSeq(stack, 1, Len(stack) - 1), ign)
         IN  DfsLoop(g, r.queue, r.explored, ign)

\* recursion(x): explored is shared by the nested calls
RECURSIVE DfsRecursion(_, _, _, _)
RECURSIVE DfsRecScan(_, _, _, _)
DfsRecScan(g, ys, explored, ign) ==
    IF ys = << >> THEN explored
    ELSE LET y == Head(ys)
         IN  IF y \notin explored /\ y \notin ign
             THEN DfsRecScan(g, Tail(ys), DfsRecursion(g, y, explored, ign), ign)
             ELSE DfsRecScan(g, Tail(ys), explored, ign)

DfsRecursion(g, x, explored, ign) ==
    DfsRecScan(g, AdjList(g, x), explored \cup {x}, ign)

depth_first_search(g, s, ignore, recursive) ==
    IF s \notin DOMAIN g.nodes THEN Raises("KeyError")
    ELSE LET ign == IF ignore.none THEN {} ELSE ignore.ids
         IN  IF recursive
             THEN ReturnsSet(DfsRecursion(g, s, {s}, ign))
             ELSE ReturnsSet(DfsLoop(g, <<s>>, {s}, ign))

\* for x in G.get_nodes(): if x not in explored and x not in ignore: ...
\* "x not in ignore" with ignore = None raises TypeError.
RECURSIVE SearchLoop(_, _, _, _, _)
SearchLoop(g, xs, explored, components, ignore) ==
    IF xs = << >> THEN ReturnsComps(components)
    ELSE LET x == Head(xs)
         IN  IF x \in explored
             THEN SearchLoop(g, Tail(xs), explored, components, ignore)
             ELSE IF ignore.none THEN Raises("TypeError")
             ELSE IF x \in ignore.ids
             THEN SearchLoop(g, Tail(xs), explored, components, ignore)
             ELSE LET c == breadth_first_search(g, x, ignore).set
                  IN  SearchLoop(g, Tail(xs), explored \cup c,
                                 Append(components, c), ignore)

\* graph_search with traversal_method = "bfs", on an undirected graph
graph_search(g, ignore, order) == SearchLoop(g, order, {}, << >>, ignore)

\* ---- connectivity.py
\* G.to_undirected(): a Graph returns itself; a DiGraph calls G.add_edge(e)
\* with e a key of self.edges, and add_edge reads e.uid.
to_undirected(g) ==
    IF kind = "Graph" THEN g
    ELSE IF DOMAIN g.edges # {} THEN Raise(g, "AttributeError")
    ELSE [nodes |-> Empty, edges |-> Empty, graph |-> Empty,
          forwardG |-> Empty, reverseG |-> Empty, err |-> "none"]

connected_components(g, ignore, order) ==
    LET T == to_undirected(g)
    IN  IF T.err # "none" THEN Raises(T.err)
        ELSE IF kind = "Graph" THEN graph_search(T, ignore, order)
        ELSE graph_search(T, ignore, << >>)

\* strongly_connected_components: Kosaraju's two passes.  A pass state st is
\* [explored, ordering, err].
RECURSIVE SccVisit(_, _, _, _)
RECURSIVE SccVisitScan(_, _, _, _)
\* for y in D.coadjacent(x): if y not in explored and y not in ignore: visit(y)
SccVisitScan(g, ys, st, ignore) ==
    IF ys = << >> THEN st
    ELSE LET y == Head(ys)
         IN  IF y \in st.explored THEN SccVisitScan(g, Tail(ys), st, ignore)
             ELSE IF ignore.none THEN [st EXCEPT !.err = "TypeError"]
             ELSE IF y \in ignore.ids THEN SccVisitScan(g, Tail(ys), st, ignore)
             ELSE LET st1 == SccVisit(g, y, st, ignore)
                  IN  IF st1.err # "none" THEN st1
                      ELSE SccVisitScan(g, Tail(ys), st1, ignore)

SccVisit(g, x, st, ignore) ==
    LET st1 == SccVisitScan(g, CoadjList(g, x),
                            [st EXCEPT !.explored = @ \cup {x}], ignore)
    IN  IF st1.err # "none" THEN st1
        ELSE [st1 EXCEPT !.ordering = Append(@, x)]

\* for x in D.get_nodes(): if x not in explored and x not in ignore: visit(x)
RECURSIVE SccVisitAll(_, _, _, _)
SccVisitAll(g, xs, st, ignore) ==
    IF xs = << >> THEN st
    ELSE LET x == Head(xs)
         IN  IF x \in st.explored THEN SccVisitAll(g, Tail(xs), st, ignore)
             ELSE IF ignore.none THEN [st EXCEPT !.err = "TypeError"]
             ELSE IF x \in ignore.ids THEN SccVisitAll(g, Tail(xs), st, ignore)
             ELSE LET st1 == SccVisit(g, x, st, ignore)
                  IN  IF st1.err # "none" THEN st1
                      ELSE SccVisitAll(g, Tail(xs), st1, ignore)

\* the loop of assign(x, c): "assigned(y, c)" calls the dict assigned, which
\* raises TypeError
RECURSIVE SccAssignScan(_, _, _)
SccAssignScan(ys, assigned, ignore) ==
    IF ys = << >> THEN "none"
    ELSE IF Head(ys) \in DOMAIN assigned THEN SccAssignScan(Tail(ys), assigned, ignore)
    ELSE IF ignore.none THEN "TypeError"
    ELSE IF Head(ys) \in ignore.ids THEN SccAssignScan(Tail(ys), assigned, ignore)
    ELSE "TypeError"

SccAssign(g, x, c, assigned, ignore) ==
    LET a == DictSet(assigned, x, c)
    IN  [assigned |-> a, err |-> SccAssignScan(AdjList(g, x), a, ignore)]

\* for x in reversed(ordering): if x not in assigned and x not in ignore: ...
RECURSIVE SccAssignAll(_, _, _, _, _)
SccAssignAll(g, xs, c, assigned, ignore) ==
    IF xs = << >> THEN [assigned |-> assigned, c |-> c, err |-> "none"]
    ELSE LET x == xs[Len(xs)]
             rest == SubSeq(xs, 1, Len(xs) - 1)
         IN  IF x \in DOMAIN assigned THEN SccAssignAll(g, rest, c, assigned, ignore)
             ELSE IF ignore.none THEN [assigned |-> assigned, c |-> c, err |-> "TypeError"]
             ELSE IF x \in ignore.ids THEN SccAssignAll(g, rest, c, assigned, ignore)
             ELSE LET r == SccAssign(g, x, c, assigned, ignore)
                  IN  IF r.err # "none" THEN [assigned |-> r.assigned, c |-> c, err |-> r.err]
                      ELSE SccAssignAll(g, rest, c + 1, r.assigned, ignore)

strongly_connected_components(g, ignore, order) ==
    LET st == SccVisitAll(g, order,
                          [explored |-> {}, ordering |-> << >>, err |-> "none"],
                          ignore)
    IN  IF st.err # "none" THEN Raises(st.err)
        ELSE LET r == SccAssignAll(g, st.ordering, 0, Empty, ignore)
             IN  IF r.err # "none" THEN Raises(r.err)
                 ELSE ReturnsComps([i \in 1..r.c |->
                                 {x \in DOMAIN r.assigned : r.assigned[x] = i - 1}])

\* ---- dag.py
\* visit(x) of is_cyclic and of topological_sort (is_cyclic keeps no
\* ordering).  A state st is [explored, visited, ordering, cyclic]; the bare
\* "raise" sets cyclic and unwinds to the caller's "except".
RECURSIVE DagVisit(_, _, _)
RECURSIVE DagVisitScan(_, _, _)
DagVisitScan(g, ys, st) ==
    IF ys = << >> \/ st.cyclic THEN st
    ELSE DagVisitScan(g, Tail(ys), DagVisit(g, Head(ys), st))

DagVisit(g, x, st) ==
    IF x \in st.visited THEN [st EXCEPT !.cyclic = TRUE]
    ELSE IF x \in st.explored THEN st
    ELSE LET st1 == DagVisitScan(g, AdjList(g, x),
                                 [st EXCEPT !.visited = @ \cup {x}])
         IN  IF st1.cyclic THEN st1
             ELSE [st1 EXCEPT !.visited = @ \ {x},
                              !.explored = @ \cup {x},
                              !.ordering = Append(@, x)]

\* for x in D.get_nodes(): if x not in explored: try: visit(x) except: ...
RECURSIVE DagVisitAll(_, _, _)
DagVisitAll(g, xs, st) ==
    IF xs = << >> \/ st.cyclic THEN st
    ELSE IF Head(xs) \in st.explored THEN DagVisitAll(g, Tail(xs), st)
    ELSE DagVisitAll(g, Tail(xs), DagVisit(g, Head(xs), st))

DagStart == [explored |-> {}, visited |-> {}, ordering |-> << >>, cyclic |-> FALSE]

is_cyclic(g, order) == ReturnsBool(DagVisitAll(g, order, DagStart).cyclic)

Reverse(s) == [i \in 1..Len(s) |-> s[Len(s) + 1 - i]]

\* topological_sort returns None when D is not a DAG
topological_sort(g, order) ==
    LET st == DagVisitAll(g, order, DagStart)
    IN  IF st.cyclic THEN ReturnsNone ELSE ReturnsOrder(Reverse(st.ordering))

\* ---- bipartite.py
\* coloring(s): r is [colors, ok]
RECURSIVE ColorScan(_, _, _, _)
ColorScan(x, ys, colors, queue) ==
    IF ys = << >> THEN [colors |-> colors, queue |-> queue, ok |-> TRUE]
    ELSE LET y == Head(ys)
         IN  IF y \in DOMAIN colors
             THEN IF colors[y] = colors[x]
                  THEN [colors |-> colors, queue |-> queue, ok |-> FALSE]
                  ELSE ColorScan(x, Tail(ys), colors, queue)
             ELSE ColorScan(x, Tail(ys), DictSet(colors, y, ~colors[x]),
                            Append(queue, y))

RECURSIVE ColorLoop(_, _, _)
ColorLoop(g, queue, colors) ==
    IF queue = << >> THEN [colors |-> colors, ok |-> TRUE]
    ELSE LET r == ColorScan(Head(queue), AdjList(g, Head(queue)), colors, Tail(queue))
         IN  IF ~r.ok THEN [colors |-> r.colors, ok |-> FALSE]
             ELSE ColorLoop(g, r.queue, r.colors)

coloring(g, s, colors) == ColorLoop(g, <<s>>, DictSet(colors, s, TRUE))

RECURSIVE ColorAll(_, _, _)
ColorAll(g, xs, colors) ==
    IF xs = << >> THEN TRUE
    ELSE IF Head(xs) \in DOMAIN colors THEN ColorAll(g, Tail(xs), colors)
    ELSE LET r == coloring(g, Head(xs), colors)
         IN  IF ~r.ok THEN FALSE ELSE ColorAll(g, Tail(xs), r.colors)

is_bipartite(g, order) ==
    IF kind = "DiGraph" THEN Raises("ValueError")
    ELSE IF Cardinality(DOMAIN g.nodes) < 2 THEN Raises("ValueError")
    ELSE ReturnsBool(ColorAll(g, order, Empty))

\* ---- shortest_path.py
\* The module starts with "from compkit.core.constants import Number, INF,
\* DISTANCE, SPECIAL", and constants.py defines no Number: importing the
\* module raises ImportError, whatever function the caller is after.
ImportShortestPath == "ImportError"

\* a call of a function of shortest_path.py, res being what its body does
Imported(res) ==
    IF ImportShortestPath = "none" THEN res ELSE Raises(ImportShortestPath)

\* INF = float("inf"): larger than every finite distance of the model, and
\* absorbing under addition.
INF == 1000

Plus(a, b) == IF a = INF \/ b = INF THEN INF ELSE a + b

\* e[label]: a link carries data = {label: w}, held as w
Label(e) == e.data

\* G.get_edges_between(x, y) with as_links = False, for x and y in G
GetEdgesBetween(g, x, y) ==
    OdGetOr(IF kind = "Graph" THEN g.graph[x] ELSE g.forwardG[x], y)

\* dist[x] = INF for x in G.get_nodes(); dist[s] = 0
DistInit(g, s) == [x \in DOMAIN g.nodes |-> IF x = s THEN 0 ELSE INF]

\* dijkstra: the frontier holds Node(s, {DISTANCE: 0}), which extract
\* returns as x.  For the first y of G.adjacent(x), "y in explored" is false
\* (explored holds Nodes, y is an id), and min(e[label] for e in
\* G.get_edges_between(x, y)) subscripts a link id, which raises TypeError;
\* over an empty list min raises ValueError.  The rest of the loop body is
\* never reached.
dijkstra(g, s) ==
    IF s \notin DOMAIN g.nodes THEN Raises("ValueError")
    ELSE LET ys == AdjList(g, s)
         IN  IF ys = << >> THEN ReturnsDist(DistInit(g, s))
             ELSE IF GetEdgesBetween(g, s, Head(ys)) = {} THEN Raises("ValueError")
             ELSE Raises("TypeError")

\* for e in D.get_edges(as_links=True): relax e; r is [dist, changed]
RECURSIVE BfPass(_, _, _, _)
BfPass(g, es, dist, changed) ==
    IF es = << >> THEN [dist |-> dist, changed |-> changed]
    ELSE LET e == g.edges[Head(es)]
         IN  IF Plus(dist[e.xid], Label(e)) < dist[e.yid]
             THEN BfPass(g, Tail(es),
                         [dist EXCEPT ![e.yid] = Plus(dist[e.xid], Label(e))], TRUE)
             ELSE BfPass(g, Tail(es), dist, changed)

\* for i in range(D.order): ...; then the test of a negative cycle
RECURSIVE BfLoop(_, _, _)
BfLoop(g, i, dist) ==
    LET r == BfPass(g, EdgeList(DOMAIN g.edges), dist, FALSE)
    IN  IF ~r.changed THEN ReturnsDist(r.dist)
        ELSE IF i = Cardinality(DOMAIN g.nodes) - 1 THEN ReturnsNone
        ELSE BfLoop(g, i + 1, r.dist)

bellman_ford(g, s) ==
    IF s \notin DOMAIN g.nodes THEN Raises("ValueError")
    ELSE BfLoop(g, 0, DistInit(g, s))

\* floyd_warshall: dist is a dict of dicts
\* for e in D.get_edges(as_links=True): if e.xid != e.yid: dist[x][y] = e[label]
RECURSIVE FwEdges(_, _, _)
FwEdges(g, es, dist) ==
    IF es = << >> THEN dist
    ELSE LET e == g.edges[Head(es)]
         IN  IF e.xid # e.yid
             THEN FwEdges(g, Tail(es), [dist EXCEPT ![e.xid][e.yid] = Label(e)])
             ELSE FwEdges(g, Tail(es), dist)

RECURSIVE FwY(_, _, _, _)
FwY(z, x, ys, dist) ==
    IF ys = << >> THEN dist
    ELSE LET y == Head(ys)
         IN  IF dist[x][y] > Plus(dist[x][z], dist[z][y])
             THEN FwY(z, x, Tail(ys),
                      [dist EXCEPT ![x][y] = Plus(dist[x][z], dist[z][y])])
             ELSE FwY(z, x, Tail(ys), dist)

RECURSIVE FwX(_, _, _, _)
FwX(z, xs, order, dist) ==
    IF xs = << >> THEN dist
    ELSE FwX(z, Tail(xs), order, FwY(z, Head(xs), order, dist))

RECURSIVE FwZ(_, _, _)
FwZ(zs, order, dist) ==
    IF zs = << >> THEN dist
    ELSE FwZ(Tail(zs), order, FwX(Head(zs), order, order, dist))

\* With include_succ = False the first statement of the first loop,
\* "dist[x], succ[x] = {}, {}", reads the unbound local succ.
\* With include_succ = True the call returns (dist, succ); the table kept
\* here is dist.
floyd_warshall(g, include_succ, order) ==
    IF order = << >> THEN ReturnsTable(Empty)
    ELSE IF ~include_succ THEN Raises("UnboundLocalError")
    ELSE LET d0 == [x \in DOMAIN g.nodes |->
                      [y \in DOMAIN g.nodes |-> IF x = y THEN 0 ELSE INF]]
             d1 == FwEdges(g, EdgeList(DOMAIN g.edges), d0)
             d2 == FwZ(order, order, d1)
         IN  IF \E x \in DOMAIN g.nodes : d2[x][x] < 0 THEN ReturnsNone
             ELSE ReturnsTable(d2)

\* johnson: after Dw = D.copy() and temp = Node(SPECIAL), the call
\* Dw.add_nodes(temp) hands add_nodes a Node where it iterates over a list:
\* "for x in xs" falls back on Node.__getitem__(0), which reads temp.data[0]
\* and raises KeyError.  No link is added to Dw, and neither bellman_ford nor
\* dijkstra is reached, whatever D is.
johnson(g, include_prev) == Raises("KeyError")

\* ---- the algorithms called on the graph object
AlgCall(fn, arg, res) ==
    /\ ret' = [fn |-> fn, arg |-> arg, res |-> res]
    /\ UNCHANGED <<heapVars, sortVars, kind, nodes, edges, graph, forwardG,
                   reverseG, call, raised, ufVars, arr>>

Ignores == {NoIgnore, Ignoring({})}

\* a call with its default arguments
NoArg == [default |-> TRUE]

bfs(s, ignore) ==
    /\ kind = "Graph"
    /\ AlgCall("breadth_first_search", [s |-> s, ignore |-> ignore],
               breadth_first_search(GSelf, s, ignore))

dfs(s, ignore, recursive) ==
    /\ kind = "Graph"
    /\ AlgCall("depth_first_search",
               [s |-> s, ignore |-> ignore, recursive |-> recursive],
               depth_first_search(GSelf, s, ignore, recursive))

components(ignore, order) ==
    AlgCall("connected_components", [ignore |-> ignore],
            connected_components(GSelf, ignore, order))

scc(ignore, order) ==
    /\ kind = "DiGraph"
    /\ AlgCall("strongly_connected_components", [ignore |-> ignore],
               strongly_connected_components(GSelf, ignore, order))

cyclic(order) ==
    /\ kind = "DiGraph"
    /\ AlgCall("is_cyclic", NoArg, is_cyclic(GSelf, order))

toposort(order) ==
    /\ kind = "DiGraph"
    /\ AlgCall("topological_sort", NoArg, topological_sort(GSelf, order))

bipartite(order) ==
    AlgCall("is_bipartite", NoArg, is_bipartite(GSelf, order))

shortest_dijkstra(s) ==
    /\ kind = "DiGraph"
    /\ AlgCall("dijkstra", [s |-> s], Imported(dijkstra(GSelf, s)))

shortest_bellman_ford(s) ==
    /\ kind = "DiGraph"
    /\ AlgCall("bellman_ford", [s |-> s], Imported(bellman_ford(GSelf, s)))

shortest_floyd_warshall(include_succ, order) ==
    /\ kind = "DiGraph"
    /\ AlgCall("floyd_warshall", [include_succ |-> include_succ],
               Imported(floyd_warshall(GSelf, include_succ, order)))

shortest_johnson(include_prev) ==
    /\ kind = "DiGraph"
    /\ AlgCall("johnson", [include_prev |-> include_prev],
               Imported(johnson(GSelf, include_prev)))

\* The caller builds the graph first, link by link with increasing link ids
\* (so that G.edges keeps its keys in the order of the ids), then removes
\* links, then calls one algorithm.
Building == ret = NoRet /\ call.op # "remove_edge"

BuildNode(x) == Building /\ add_node(x, 0)

BuildEdge(x, y, w) ==
    /\ Building
    /\ Cardinality(DOMAIN edges) < MaxAlgEdge
    /\ add_edge(Link(Cardinality(DOMAIN edges) + 1, x, y, w))

DropEdge(u) == ret = NoRet /\ u \in DOMAIN edges /\ remove_edge(u)

TraverseNext ==
    \/ \E x \in AlgNodes : BuildNode(x)
    \/ \E x \in AlgNodes, y \in AlgNodes : BuildEdge(x, y, 0)
    \/ \E u \in AlgEdges : DropEdge(u)
    \/ ret = NoRet /\ \E s \in AlgNodes : bfs(s, NoIgnore)
    \/ ret = NoRet /\ \E s \in AlgNodes, r \in BOOLEAN : dfs(s, NoIgnore, r)
    \/ ret = NoRet /\ \E i \in Ignores, o \in NodeOrders(GSelf) : components(i, o)
    \/ ret = NoRet /\ \E o \in NodeOrders(GSelf) : bipartite(o)

\* unweighted Graphs and DiGraphs, with the traversal, connectivity and
\* bipartite algorithms
TraverseSpec == GraphInit /\ [][TraverseNext]_vars

DagNext ==
    \/ \E x \in AlgNodes : BuildNode(x)
    \/ \E x \in AlgNodes, y \in AlgNodes : BuildEdge(x, y, 0)
    \/ \E u \in AlgEdges : DropEdge(u)
    \/ ret = NoRet /\ \E i \in Ignores, o \in NodeOrders(GSelf) : scc(i, o)
    \/ ret = NoRet /\ \E o \in NodeOrders(GSelf) : cyclic(o)
    \/ ret = NoRet /\ \E o \in NodeOrders(GSelf) : toposort(o)

\* unweighted DiGraphs, with the strong connectivity and DAG algorithms
DagSpec == DiGraphInit /\ [][DagNext]_vars

PathNext ==
    \/ \E x \in AlgNodes, y \in AlgNodes, w \in Weights : BuildEdge(x, y, w)
    \/ \E u \in AlgEdges : DropEdge(u)
    \/ ret = NoRet /\ \E s \in AlgNodes : shortest_dijkstra(s)
    \/ ret = NoRet /\ \E s \in AlgNodes : shortest_bellman_ford(s)
    \/ ret = NoRet /\ \E b \in BOOLEAN, o \in NodeOrders(GSelf) :
                         shortest_floyd_warshall(b, o)
    \/ ret = NoRet /\ \E b \in BOOLEAN : shortest_johnson(b)

\* DiGraphs whose links carry an integer label, with the shortest-path
\* algorithms
PathSpec == DiGraphInit /\ [][PathNext]_vars

\* ---- helpers of the algorithm claims
\* the pairs <<x, y>> joined by a stored link from x to y
Arcs == {<<edges[u].xid, edges[u].yid>> : u \in DOMAIN edges}

\* the same with the direction ignored
Joined == Arcs \cup {<<a[2], a[1]>> : a \in Arcs}

\* the nodes that a path over the pairs reaches from a node of S
RECURSIVE ReachFrom(_, _)
ReachFrom(S, pairs) ==
    LET T == S \cup {a[2] : a \in {b \in pairs : b[1] \in S}}
    IN  IF T = S THEN S ELSE ReachFrom(T, pairs)

\* cs, a list of node sets, is a partition of the nodes
IsPartition(cs) ==
    /\ \A i \in DOMAIN cs : cs[i] # {}
    /\ \A i, j \in DOMAIN cs : i # j => cs[i] \cap cs[j] = {}
    /\ UNION {cs[i] : i \in DOMAIN cs} = DOMAIN nodes

Together(cs, x, y) == \E i \in DOMAIN cs : x \in cs[i] /\ y \in cs[i]

\* C13: for every Graph G and node id s in G, with no ignore set,
\* breadth_first_search(G, s), iterative depth_first_search(G, s) and
\* recursive depth_first_search(G, s) return the same set, the set of nodes
\* that a path of links joins to s; each raises KeyError when s is not in G.
C13_TraversalsAgree ==
    (ret.fn \in {"breadth_first_search", "depth_first_search"} /\ ret.arg.ignore.none)
    => IF ret.arg.s \in DOMAIN nodes
       THEN /\ ret.res.err = "none"
            /\ ret.res.set = ReachFrom({ret.arg.s}, Joined)
       ELSE ret.res.err = "KeyError"

\* C14: connected_components(G) with its default arguments, for every Graph
\* or DiGraph G, returns a list of pairwise disjoint non-empty node sets that
\* cover all nodes of G, two nodes being in the same set if and only if a
\* path joins them when the direction of the links is ignored.
C14_ConnectedComponents ==
    (ret.fn = "connected_components" /\ ret.arg.ignore.none)
    => /\ ret.res.err = "none"
       /\ IsPartition(ret.res.comps)
       /\ \A x, y \in DOMAIN nodes :
             Together(ret.res.comps, x, y) <=> y \in ReachFrom({x}, Joined)

\* C15: strongly_connected_components(D), for every DiGraph D, returns a
\* partition of the nodes of D in which two nodes share a component if and
\* only if each is reachable from the other.
C15_StronglyConnected ==
    (ret.fn = "strongly_connected_components" /\ ret.arg.ignore.none)
    => /\ ret.res.err = "none"
       /\ IsPartition(ret.res.comps)
       /\ \A x, y \in DOMAIN nodes :
             Together(ret.res.comps, x, y)
             <=> (y \in ReachFrom({x}, Arcs) /\ x \in ReachFrom({y}, Arcs))

\* D has a directed cycle, a self-loop included
HasCycle == \E a \in Arcs : a[1] \in ReachFrom({a[2]}, Arcs)

\* C16: for every DiGraph D, topological_sort(D) returns None if and only if
\* is_cyclic(D) is true, which holds if and only if D has a directed cycle (a
\* self-loop included); otherwise it returns a list holding every node exactly
\* once in which x precedes y for every edge (x, y).
C16_TopologicalSort ==
    /\ ret.fn = "is_cyclic"
       => ret.res.err = "none" /\ ret.res.bool = HasCycle
    /\ ret.fn = "topological_sort"
       => /\ ret.res.err = "none"
          /\ ret.res.none <=> HasCycle
          /\ ~ret.res.none =>
                LET l == ret.res.order
                IN  /\ Len(l) = Cardinality(DOMAIN nodes)
                    /\ {l[i] : i \in 1..Len(l)} = DOMAIN nodes
                    /\ \A a \in Arcs : \E i, j \in 1..Len(l) :
                          i < j /\ l[i] = a[1] /\ l[j] = a[2]

\* the nodes can be 2-coloured so that no link joins two nodes of one colour
TwoColourable ==
    \E c \in [DOMAIN nodes -> BOOLEAN] : \A a \in Arcs : c[a[1]] # c[a[2]]

\* C17: for every undirected Graph G with at least 2 nodes, is_bipartite(G)
\* returns true if and only if the nodes of G can be 2-coloured so that no
\* link joins two nodes of the same colour; it raises ValueError for a DiGraph
\* and for a graph with fewer than 2 nodes.
C17_Bipartite ==
    ret.fn = "is_bipartite"
    => IF kind = "DiGraph" \/ Cardinality(DOMAIN nodes) < 2
       THEN ret.res.err = "ValueError"
       ELSE ret.res.err = "none" /\ ret.res.bool = TwoColourable

\* ---- helpers of the shortest-path claims
\* the walks that use no link twice, each a list of link ids
Trails ==
    {p \in UNION {[1..n -> DOMAIN edges] : n \in 1..Cardinality(DOMAIN edges)} :
        /\ \A i, j \in DOMAIN p : i # j => p[i] # p[j]
        /\ \A i \in 1..(Len(p) - 1) : edges[p[i]].yid = edges[p[i + 1]].xid}

RECURSIVE Total(_)
Total(p) == IF p = << >> THEN 0 ELSE edges[Head(p)].data + Total(Tail(p))

TrailsBetween(x, y) ==
    {p \in Trails : edges[p[1]].xid = x /\ edges[p[Len(p)]].yid = y}

\* a closed walk of negative total label starts at a node reachable from S
NegativeCycleFrom(S) ==
    \E p \in Trails :
        /\ edges[p[1]].xid = edges[p[Len(p)]].yid
        /\ Total(p) < 0
        /\ edges[p[1]].xid \in ReachFrom(S, Arcs)

\* the minimum total label over the paths from x to each node, INF when no
\* path reaches it
Shortest(x) ==
    [y \in DOMAIN nodes |->
        LET T == {Total(p) : p \in TrailsBetween(x, y)}
                 \cup (IF x = y THEN {0} ELSE {})
        IN  IF T = {} THEN INF ELSE CHOOSE m \in T : \A n \in T : m <= n]

\* C18: for every DiGraph D whose links all carry a non-negative label and
\* every source s in D, dijkstra(D, s, label) returns normally the distance
\* map of bellman_ford(D, s, label): for every node the minimum total label
\* over the paths from s, infinity for the nodes that no path reaches.
C18_DijkstraDistances ==
    ( /\ ret.fn = "dijkstra"
      /\ ret.arg.s \in DOMAIN nodes
      /\ \A u \in DOMAIN edges : edges[u].data >= 0 )
    => /\ ret.res.err = "none"
       /\ ~ret.res.none
       /\ ret.res.dist = Shortest(ret.arg.s)
       /\ ret.res = Imported(bellman_ford(GSelf, ret.arg.s))

\* C19: for every DiGraph D with integer labels and every source s in D,
\* bellman_ford(D, s, label) returns None if and only if a cycle of negative
\* total label is reachable from s, and otherwise returns for every node the
\* minimum total label over the paths from s, infinity for the nodes that no
\* path reaches.
C19_BellmanFord ==
    (ret.fn = "bellman_ford" /\ ret.arg.s \in DOMAIN nodes)
    => /\ ret.res.err = "none"
       /\ ret.res.none <=> NegativeCycleFrom({ret.arg.s})
       /\ ~ret.res.none => ret.res.dist = Shortest(ret.arg.s)

\* C20: floyd_warshall(D, label) with its default include_succ = False, for
\* every DiGraph D with integer labels, returns None when D has a cycle of
\* negative total label, and otherwise returns dist with dist[x][y] the
\* minimum total label over the paths from x to y, 0 for y = x and infinity
\* when there is no path.
C20_FloydWarshall ==
    (ret.fn = "floyd_warshall" /\ ~ret.arg.include_succ)
    => /\ ret.res.err = "none"
       /\ ret.res.none <=> NegativeCycleFrom(DOMAIN nodes)
       /\ ~ret.res.none
          => ret.res.table = [x \in DOMAIN nodes |-> Shortest(x)]

\* C21: johnson(D, label), for every DiGraph D with integer labels (no node
\* of the model has the id "special"), returns None if D has a cycle of
\* negative total label, and otherwise returns dist with dist[x][y] the
\* minimum total label over the paths from x to y under the labels of D, for
\* all nodes x and y of D.
C21_Johnson ==
    ret.fn = "johnson"
    => /\ ret.res.err = "none"
       /\ ret.res.none <=> NegativeCycleFrom(DOMAIN nodes)
       /\ ~ret.res.none
          => ret.res.table = [x \in DOMAIN nodes |-> Shortest(x)]

\* ---- minimum_cut.py
\* The number of iterations T a caller asks of karger.
MaxTrials == 2

\* karger(G, T): its first statement is "mincut_errors()", a call without
\* the argument G that mincut_errors(G) requires, which raises TypeError
\* before G is examined; neither the checks of mincut_errors nor the
\* contraction loop of mincut is reached, for any G and any T.
karger(g, T) == Raises("TypeError")

call_karger(T) == AlgCall("karger", [T |-> T], karger(GSelf, T))

CutNext ==
    \/ \E x \in AlgNodes : BuildNode(x)
    \/ \E x \in AlgNodes, y \in AlgNodes : BuildEdge(x, y, 0)
    \/ \E u \in AlgEdges : DropEdge(u)
    \/ ret = NoRet /\ \E T \in 1..MaxTrials : call_karger(T)

\* unweighted Graphs and DiGraphs, with the minimum-cut algorithm
CutSpec == GraphInit /\ [][CutNext]_vars

\* the links of G with one endpoint in A and the other in B
Crossing(A, B) ==
    {u \in DOMAIN edges :
        \/ edges[u].xid \in A /\ edges[u].yid \in B
        \/ edges[u].xid \in B /\ edges[u].yid \in A}

\* C22: for every undirected, connected Graph G with at least 2 nodes and
\* every T >= 1, karger(G, T) returns a pair (A, B) of non-empty disjoint
\* sets of node ids whose union is the node set of G, together with a size
\* equal to the number of links of G with one endpoint in A and the other in
\* B.
C22_Karger ==
    ( /\ ret.fn = "karger"
      /\ kind = "Graph"
      /\ Cardinality(DOMAIN nodes) >= 2
      /\ \A x \in DOMAIN nodes : ReachFrom({x}, Joined) = DOMAIN nodes )
    => /\ ret.res.err = "none"
       /\ ret.res.A # {} /\ ret.res.B # {}
       /\ ret.res.A \cap ret.res.B = {}
       /\ ret.res.A \cup ret.res.B = DOMAIN nodes
       /\ ret.res.size = Cardinality(Crossing(ret.res.A, ret.res.B))

\* ------------------------------------------------------------ UnionFind
\* The uids of the items given to a UnionFind, and how many union calls on
\* added items a run makes.
MaxItem == 4
MaxUnions == 3

ItemIds == 1..MaxItem

\* Data(): parent = None, rank = 0
Data == [parent |-> None, rank |-> 0]

\* Each method works on a value u of the object and gives back [u, err, val]:
\* the object as the call left it, the exception raised ("none" when it
\* returned) and the value returned (None for a call that returns nothing).
UDone(u, v) == [u |-> u, err |-> "none", val |-> v]

URaise(u, e) == [u |-> u, err |-> e, val |-> None]

\* UnionFind.add(item)
UAdd(u, uid) ==
    IF ~u.bound THEN URaise(u, "AttributeError")
    ELSE IF uid \in u.items THEN UDone(u, None)
    ELSE UDone([u EXCEPT !.items = @ \cup {uid},
                         !.datum = DictSet(@, uid, Data)], None)

\* The loop of find.  In "cid, self.datum[cid].parent = parent, grandparent"
\* the targets are assigned from left to right: cid is parent when
\* self.datum[cid] is evaluated, so the statement stores the grandparent as
\* the parent of parent, the value it already has.
RECURSIVE UFindLoop(_, _)
UFindLoop(datum, cid) ==
    IF datum[cid].parent = None THEN [datum |-> datum, cid |-> cid]
    ELSE LET parent == datum[cid].parent
             grandparent == datum[parent].parent
         IN  UFindLoop([datum EXCEPT ![parent].parent = grandparent], parent)

\* UnionFind.find(item)
UFind(u, uid) ==
    IF ~u.bound THEN URaise(u, "AttributeError")
    ELSE IF uid \notin u.items THEN UDone(u, None)
    ELSE LET r == UFindLoop(u.datum, uid)
         IN  UDone([u EXCEPT !.datum = r.datum], r.cid)

\* UnionFind.union(u, v)
UUnion(u, uid, vid) ==
    LET fu == UFind(u, uid)
    IN  IF fu.err # "none" THEN fu
        ELSE LET fv == UFind(fu.u, vid)
                 w == fv.u
             IN  IF fv.err # "none" THEN fv
                 ELSE IF fu.val = None \/ fv.val = None THEN UDone(w, None)
                 ELSE IF fu.val = fv.val THEN UDone(w, None)
                 ELSE LET swap == w.datum[fu.val].rank < w.datum[fv.val].rank
                          uset == IF swap THEN fv.val ELSE fu.val
                          vset == IF swap THEN fu.val ELSE fv.val
                          d1 == [w.datum EXCEPT ![vset].parent = uset]
                          d2 == IF d1[uset].rank = d1[vset].rank
                                THEN [d1 EXCEPT ![uset].rank = @ + 1]
                                ELSE d1
                      IN  UDone([w EXCEPT !.datum = d2], None)

\* len(U)
ULen(u) ==
    IF ~u.bound THEN URaise(u, "AttributeError")
    ELSE UDone(u, Cardinality(u.items))

\* ---- the calls on the UnionFind object
UCalled(op, a, b, r) ==
    /\ U' = r.u
    /\ ucall' = [op |-> op, a |-> a, b |-> b, err |-> r.err, val |-> r.val]
    /\ UNCHANGED <<heapVars, sortVars, graphVars, arr>>

\* UnionFind(nodes) with n nodes, as test_union_find builds it: __init__
\* takes no argument but self, so the call raises TypeError and creates no
\* object.
UnionFindOf(n) ==
    /\ UCalled("UnionFind", n, 0, URaise(U, "TypeError"))
    /\ UNCHANGED <<added, united>>

uf_add(uid) ==
    /\ UCalled("add", uid, 0, UAdd(U, uid))
    /\ added' = added \cup {uid}
    /\ UNCHANGED united

uf_find(uid) ==
    /\ UCalled("find", uid, 0, UFind(U, uid))
    /\ UNCHANGED <<added, united>>

uf_union(uid, vid) ==
    /\ Cardinality(united) < MaxUnions
    /\ UCalled("union", uid, vid, UUnion(U, uid, vid))
    /\ united' = IF uid \in added /\ vid \in added
                 THEN united \cup {{uid, vid}} ELSE united
    /\ UNCHANGED added

uf_len ==
    /\ UCalled("len", 0, 0, ULen(U))
    /\ UNCHANGED <<added, united>>

UnionFindNext ==
    \/ \E n \in 0..MaxItem : UnionFindOf(n)
    \/ \E x \in ItemIds : uf_add(x)
    \/ \E x \in ItemIds : uf_find(x)
    \/ \E x \in ItemIds, y \in ItemIds : uf_union(x, y)
    \/ uf_len

UnionFindStart == HeapIdle /\ SortIdle /\ GraphIdle /\ LibIdle

UnionFindSpec == UnionFindStart /\ [][UnionFindNext]_vars

\* ---- helpers of the UnionFind claims
\* the pairs of items that a union call named, in both directions
UnitedPairs ==
    {<<x, y>> \in ItemIds \X ItemIds : {x, y} \in united}

\* a and b are equal or linked by a chain of union calls
Linked(a, b) == b \in ReachFrom({a}, UnitedPairs)

\* the items met when following the parent links from x for at most k steps
RECURSIVE ParentPath(_, _, _)
ParentPath(datum, x, k) ==
    IF x \notin DOMAIN datum THEN {}
    ELSE IF datum[x].parent = None \/ k = 0 THEN {x}
    ELSE {x} \cup ParentPath(datum, datum[x].parent, k - 1)

\* following the parent links from x reaches a root
ReachesRoot(datum, x) ==
    \E r \in ParentPath(datum, x, Cardinality(DOMAIN datum)) :
        datum[r].parent = None

\* that root
RootOf(datum, x) ==
    CHOOSE r \in ParentPath(datum, x, Cardinality(DOMAIN datum)) :
        datum[r].parent = None

\* C23: in a UnionFind, after any sequence of add, union and find calls, for
\* all added items a and b, find(a) and find(b) return representatives, and
\* find(a) == find(b) if and only if a and b are equal or linked by a chain
\* of union calls.
C23_FindIffUnited ==
    \A a \in added, b \in added :
        LET fa == UFind(U, a)
            fb == UFind(U, b)
        IN  /\ fa.err = "none" /\ fb.err = "none"
            /\ fa.val # None /\ fb.val # None
            /\ (fa.val = fb.val) <=> Linked(a, b)

\* C24: UnionFind(nodes) with n nodes of distinct uids is created without
\* error, has length n, and holds every node in a partition of its own;
\* add of a uid already present changes nothing.
C24_BuiltFromNodes ==
    ucall.op = "UnionFind"
    => /\ ucall.err = "none"
       /\ ULen(U).err = "none" /\ ULen(U).val = ucall.a
       /\ \A a \in U.items, b \in U.items :
             a # b => UFind(U, a).val # UFind(U, b).val
       /\ \A a \in U.items : UAdd(U, a).u = U

\* C27: in a UnionFind, after any sequence of add, union and find calls,
\* every added item has a record, following the parent links from it reaches
\* a root, every item with a parent has a rank strictly less than its
\* parent's, and find of it returns.
C27_ParentsReachRoot ==
    \A x \in added :
        /\ x \in DOMAIN U.datum
        /\ ReachesRoot(U.datum, x)
        /\ U.datum[x].parent # None
           => U.datum[x].rank < U.datum[U.datum[x].parent].rank
        /\ UFind(U, x).err = "none"

\* C28: find(item) of an added item returns the root of item, and leaves
\* every item visited on the way whose parent was not the root with its
\* former grandparent as parent; the partition is as it was.
C28_PathSplitting ==
    [][\A x \in added :
          uf_find(x)
          => /\ ucall'.err = "none"
             /\ ucall'.val = RootOf(U.datum, x)
             /\ \A y \in ParentPath(U.datum, x, Cardinality(DOMAIN U.datum)) :
                   LET p == U.datum[y].parent
                   IN  (p # None /\ U.datum[p].parent # None)
                       => U'.datum[y].parent = U.datum[p].parent
             /\ \A y \in DOMAIN U.datum :
                   RootOf(U'.datum, y) = RootOf(U.datum, y)]_vars

\* ------------------------------------------------------- array algorithms
\* The arrays given to the algorithms: at most MaxArr integers of
\* 0..MaxElem.  A list B is a sequence, B[i] of the code being B[i + 1].
MaxArr == 4
MaxElem == 2

Elems == 0..MaxElem

Arrays == UNION {[1..n -> Elems] : n \in 0..MaxArr}

\* B[i], B[j] = B[j], B[i]
Exchange(B, i, j) == [B EXCEPT ![i + 1] = B[j + 1], ![j + 1] = B[i + 1]]

\* B[l:r]
Slice(B, l, r) == [k \in 1..(r - l) |-> B[l + k]]

\* ---- sorting.py: bubble_sort
\* for i in range(n - 1): if B[i] > B[i + 1]: swap
RECURSIVE BubblePass(_, _, _, _)
BubblePass(B, i, n, swapped) ==
    IF i >= n - 1 THEN [B |-> B, swapped |-> swapped]
    ELSE IF B[i + 1] > B[i + 2]
         THEN BubblePass(Exchange(B, i, i + 1), i + 1, n, TRUE)
         ELSE BubblePass(B, i + 1, n, swapped)

\* for _ in range(len(B)), t being the number of passes made
RECURSIVE BubbleLoop(_, _, _)
BubbleLoop(B, t, n) ==
    IF t >= Len(B) THEN B
    ELSE LET r == BubblePass(B, 0, n, FALSE)
         IN  IF ~r.swapped THEN r.B ELSE BubbleLoop(r.B, t + 1, n - 1)

bubble_sort(A) == BubbleLoop(A, 0, Len(A))

\* ---- sorting.py: insertion_sort
\* while j >= 0 and B[j] > x: B[j + 1] = B[j]; j -= 1;  then B[j + 1] = x
RECURSIVE InsertShift(_, _, _)
InsertShift(B, j, x) ==
    IF j >= 0 /\ B[j + 1] > x
    THEN InsertShift([B EXCEPT ![j + 2] = B[j + 1]], j - 1, x)
    ELSE [B EXCEPT ![j + 2] = x]

RECURSIVE InsertLoop(_, _)
InsertLoop(B, i) ==
    IF i >= Len(B) THEN B
    ELSE InsertLoop(InsertShift(B, i - 1, B[i + 1]), i + 1)

insertion_sort(A) == InsertLoop(A, 1)

\* ---- sorting.py: selection_sort
\* for j in range(i + 1, n): if B[j] < B[k]: k = j
RECURSIVE SelectMin(_, _, _)
SelectMin(B, j, k) ==
    IF j >= Len(B) THEN k
    ELSE SelectMin(B, j + 1, IF B[j + 1] < B[k + 1] THEN j ELSE k)

RECURSIVE SelectLoop(_, _)
SelectLoop(B, i) ==
    IF i >= Len(B) THEN B
    ELSE SelectLoop(Exchange(B, i, SelectMin(B, i + 1, i)), i + 1)

selection_sort(A) == SelectLoop(A, 0)

\* ---- sorting.py: merge_sort, and inversions.py
\* merge(l, m, r): L and R end with the sentinel INF; count is the number
\* inversions.py adds up, "count += (m - l) - i" each time it takes from R.
RECURSIVE MergeLoop(_, _, _, _, _, _, _, _)
MergeLoop(B, L, R, i, j, k, r, count) ==
    IF k >= r THEN [B |-> B, count |-> count]
    ELSE IF L[i + 1] < R[j + 1]
         THEN MergeLoop([B EXCEPT ![k + 1] = L[i + 1]], L, R, i + 1, j, k + 1,
                        r, count)
         ELSE MergeLoop([B EXCEPT ![k + 1] = R[j + 1]], L, R, i, j + 1, k + 1,
                        r, count + (Len(L) - 1) - i)

merge(B, l, m, r) ==
    MergeLoop(B, Append(Slice(B, l, m), INF), Append(Slice(B, m, r), INF),
              0, 0, l, r, 0)

\* recurse(l, r): the list and the sum left + right + middle
RECURSIVE MergeRecurse(_, _, _)
MergeRecurse(B, l, r) ==
    IF r - l <= 1 THEN [B |-> B, count |-> 0]
    ELSE LET m == (r + l) \div 2
             left == MergeRecurse(B, l, m)
             right == MergeRecurse(left.B, m, r)
             middle == merge(right.B, l, m, r)
         IN  [B |-> middle.B,
              count |-> left.count + right.count + middle.count]

merge_sort(A) == MergeRecurse(A, 0, Len(A)).B

inversions(A) == MergeRecurse(A, 0, Len(A))

\* ---- sorting.py: quick_sort
\* for i in range(l + 1, r): if B[i] < key: k += 1; swap B[i], B[k]
RECURSIVE PartitionLoop(_, _, _, _, _)
PartitionLoop(B, i, r, k, key) ==
    IF i >= r THEN [B |-> B, k |-> k]
    ELSE IF B[i + 1] < key
         THEN PartitionLoop(Exchange(B, i, k + 1), i + 1, r, k + 1, key)
         ELSE PartitionLoop(B, i + 1, r, k, key)

\* partition without its last statement, which puts the pivot at k
partitionPivotLeft(B, l, r, p) ==
    LET key == B[p + 1]
        st == PartitionLoop(Exchange(B, l, p), l + 1, r, l, key)
    IN  [B |-> st.B, k |-> st.k]

\* partition(l, r) with p the value of random.randrange(l, r)
partition(B, l, r, p) ==
    LET key == B[p + 1]
        st == PartitionLoop(Exchange(B, l, p), l + 1, r, l, key)
    IN  [B |-> Exchange(st.B, l, st.k), k |-> st.k]

\* recurse(l, r): rnd lists the random draws of the run, t counts the draws
\* made; the draw d gives the pivot l + d % (r - l).
RECURSIVE QuickRecurse(_, _, _, _, _)
QuickRecurse(B, l, r, rnd, t) ==
    IF r - l <= 1 THEN [B |-> B, t |-> t]
    ELSE LET p == partition(B, l, r, l + (rnd[t + 1] % (r - l)))
             lo == QuickRecurse(p.B, l, p.k, rnd, t + 1)
         IN  QuickRecurse(lo.B, p.k + 1, r, rnd, lo.t)

quick_sort(A, rnd) == QuickRecurse(A, 0, Len(A), rnd, 0).B

\* the random draws of a run: a list of n items has at most n - 1 partitions
Draws == [1..(MaxArr - 1) -> 0..(MaxArr - 1)]

\* ---- the calls
\* A caller holds the list src and calls fn(src, inplace): with inplace the
\* function works on the caller's list, otherwise on a deepcopy of it.
ArrCall(fn, inplace, sorted) ==
    /\ arr.fn = "none"
    /\ arr' = [fn |-> fn, inplace |-> inplace, given |-> arr.src,
               src |-> IF inplace THEN sorted ELSE arr.src,
               res |-> sorted]
    /\ UNCHANGED <<heapVars, sortVars, graphVars, ufVars>>

call_bubble_sort(inplace) ==
    ArrCall("bubble_sort", inplace, bubble_sort(arr.src))

call_insertion_sort(inplace) ==
    ArrCall("insertion_sort", inplace, insertion_sort(arr.src))

call_selection_sort(inplace) ==
    ArrCall("selection_sort", inplace, selection_sort(arr.src))

call_merge_sort(inplace) ==
    ArrCall("merge_sort", inplace, merge_sort(arr.src))

call_quick_sort(inplace, rnd) ==
    ArrCall("quick_sort", inplace, quick_sort(arr.src, rnd))

\* inversions(src, inplace) returns the count and sorts the list it works on
call_inversions(inplace) ==
    /\ arr.fn = "none"
    /\ LET r == inversions(arr.src)
       IN  arr' = [fn |-> "inversions", inplace |-> inplace, given |-> arr.src,
                   src |-> IF inplace THEN r.B ELSE arr.src,
                   count |-> r.count]
    /\ UNCHANGED <<heapVars, sortVars, graphVars, ufVars>>

ArrayInit ==
    /\ HeapIdle
    /\ SortIdle
    /\ GraphIdle
    /\ UnionFindInit
    /\ \E A \in Arrays : arr = [fn |-> "none", src |-> A]

ArrayNext ==
    \/ \E b \in BOOLEAN : call_bubble_sort(b)
    \/ \E b \in BOOLEAN : call_insertion_sort(b)
    \/ \E b \in BOOLEAN : call_selection_sort(b)
    \/ \E b \in BOOLEAN : call_merge_sort(b)
    \/ \E b \in BOOLEAN, rnd \in Draws : call_quick_sort(b, rnd)
    \/ \E b \in BOOLEAN : call_inversions(b)

ArraySpec == ArrayInit /\ [][ArrayNext]_vars

\* ---- the claims about the array algorithms
\* B holds the items of A, each as many times
IsPermutation(A, B) ==
    /\ Len(A) = Len(B)
    /\ \A v \in Elems :
          Cardinality({i \in DOMAIN A : A[i] = v})
              = Cardinality({i \in DOMAIN B : B[i] = v})

NonDecreasing(B) == \A i \in 1..(Len(B) - 1) : B[i] <= B[i + 1]

SortNames ==
    {"bubble_sort", "insertion_sort", "selection_sort", "merge_sort",
     "quick_sort"}

\* C25: for every array A of integers, bubble_sort, insertion_sort,
\* selection_sort, merge_sort and quick_sort (for every choice of its random
\* pivots) each return a permutation of A in non-decreasing order.
C25_SortsSort ==
    arr.fn \in SortNames
    => IsPermutation(arr.given, arr.res) /\ NonDecreasing(arr.res)

\* quick_sort has returned a list of MaxArr items with a repeated item that
\* it had to reorder
C25_Witness ==
    /\ arr.fn = "quick_sort"
    /\ Len(arr.given) = MaxArr
    /\ arr.given # arr.res
    /\ \E i, j \in DOMAIN arr.given : i # j /\ arr.given[i] = arr.given[j]

\* the inversions of A: the pairs i < j with A[j] < A[i]
BruteForce(A) ==
    Cardinality({p \in (DOMAIN A) \X (DOMAIN A) : p[1] < p[2] /\ A[p[2]] < A[p[1]]})

\* C26: for every array A of integers, arrays with equal elements included,
\* inversions(A) returns the number of index pairs i < j with A[j] < A[i].
C26_InversionsCount ==
    arr.fn = "inversions" => arr.count = BruteForce(arr.given)

\* ------------------------------------------------- structural conversions
\* a graph object returned by a call: res.graph is its value, res.class its
\* class
ReturnsGraph(class, g) ==
    [graph |-> g, class |-> class, none |-> FALSE, err |-> "none"]

\* Graph() / DiGraph()
EmptyGraph ==
    [nodes |-> Empty, edges |-> Empty, graph |-> Empty,
     forwardG |-> Empty, reverseG |-> Empty, err |-> "none"]

\* transpose(inplace=False): D = self.copy(), a deepcopy, is transposed and
\* returned
DiTransposeCopy(g) == ReturnsGraph("DiGraph", DiTranspose(g))

\* G.to_directed(): a DiGraph returns itself; a Graph iterates the keys of
\* self.edges and reads e.uid of a key.
to_directed(g) ==
    IF kind = "DiGraph" THEN ReturnsGraph("DiGraph", g)
    ELSE IF DOMAIN g.edges # {} THEN Raises("AttributeError")
    ELSE ReturnsGraph("DiGraph", EmptyGraph)

\* ---- the calls
transpose_copy ==
    /\ kind = "DiGraph"
    /\ AlgCall("transpose", [inplace |-> FALSE], DiTransposeCopy(GSelf))

call_to_undirected ==
    AlgCall("to_undirected", NoArg,
            LET T == to_undirected(GSelf)
            IN  IF T.err # "none" THEN Raises(T.err)
                ELSE ReturnsGraph("Graph", T))

call_to_directed == AlgCall("to_directed", NoArg, to_directed(GSelf))

ConvertNext ==
    \/ CoreNext
    \/ ret = NoRet /\ transpose_copy
    \/ ret = NoRet /\ call_to_undirected
    \/ ret = NoRet /\ call_to_directed

\* a Graph or a DiGraph with its mutating methods, transpose and the
\* conversions to_undirected and to_directed
ConvertSpec == GraphInit /\ [][ConvertNext]_vars

\* ---- the claims about transpose and the conversions
\* t is g with every link reversed and the two indices exchanged
IsTransposeOf(t, g) ==
    /\ t.nodes = g.nodes
    /\ DOMAIN t.edges = DOMAIN g.edges
    /\ \A u \in DOMAIN g.edges :
          t.edges[u] = Link(u, g.edges[u].yid, g.edges[u].xid, g.edges[u].data)
    /\ t.forwardG = g.reverseG
    /\ t.reverseG = g.forwardG

\* the DiGraph index invariant, of a graph value
DiIndexed(g) ==
    /\ \A u \in DOMAIN g.edges :
          LET e == g.edges[u]
          IN  /\ e.xid \in DOMAIN g.forwardG
              /\ e.yid \in DOMAIN g.reverseG
              /\ u \in OdGetOr(g.forwardG[e.xid], e.yid)
              /\ u \in OdGetOr(g.reverseG[e.yid], e.xid)
    /\ DOMAIN g.forwardG = DOMAIN g.nodes
    /\ DOMAIN g.reverseG = DOMAIN g.nodes
    /\ \A x, y \in DOMAIN g.nodes :
          OdHas(g.forwardG[x], y) <=> OdHas(g.reverseG[y], x)

\* C29: DiGraph.transpose() replaces every stored link (uid, x, y) by
\* (uid, y, x) with the same data and exchanges the forward and reverse
\* indices, keeping the DiGraph index invariant; a second transpose restores
\* the nodes, links and indices; with inplace=False the DiGraph is left as it
\* was and the transposed copy is returned.
C29_Transpose ==
    [][/\ transpose
          => /\ IsTransposeOf(GSelf', GSelf)
             /\ DiIndexed(GSelf')
             /\ DiTranspose(GSelf') = GSelf
       /\ transpose_copy
          => /\ ret'.res.err = "none"
             /\ IsTransposeOf(ret'.res.graph, GSelf)
             /\ DiIndexed(ret'.res.graph)
             /\ DiTranspose(ret'.res.graph) = GSelf
             /\ GSelf' = GSelf]_vars

\* a copy of a DiGraph was returned by transpose(inplace=False) that holds a
\* self-loop and a link between two different nodes, one of them with data
C29_Witness ==
    /\ ret.fn = "transpose"
    /\ \E u, w \in DOMAIN ret.res.graph.edges :
          /\ ret.res.graph.edges[u].xid = ret.res.graph.edges[u].yid
          /\ ret.res.graph.edges[w].xid # ret.res.graph.edges[w].yid
          /\ ret.res.graph.edges[w].data # 0
    /\ call.op = "transpose"

\* C30: DiGraph.to_undirected() returns a Graph with the same node ids and
\* one link per link of the DiGraph, with the same uid and endpoints;
\* Graph.to_directed() returns a DiGraph with the same node ids and, for each
\* link e = (x, y), the two links (0, e.uid) from x to y and (1, e.uid) from
\* y to x carrying e's data.  The link (i, u) of the DiGraph is found at
\* <<i, u>>.
C30_Conversions ==
    /\ (ret.fn = "to_undirected" /\ kind = "DiGraph")
       => /\ ret.res.err = "none"
          /\ ret.res.class = "Graph"
          /\ DOMAIN ret.res.graph.nodes = DOMAIN nodes
          /\ DOMAIN ret.res.graph.edges = DOMAIN edges
          /\ \A u \in DOMAIN edges :
                /\ ret.res.graph.edges[u].uid = u
                /\ ret.res.graph.edges[u].xid = edges[u].xid
                /\ ret.res.graph.edges[u].yid = edges[u].yid
    /\ (ret.fn = "to_directed" /\ kind = "Graph")
       => /\ ret.res.err = "none"
          /\ ret.res.class = "DiGraph"
          /\ DOMAIN ret.res.graph.nodes = DOMAIN nodes
          /\ DOMAIN ret.res.graph.edges = {0, 1} \X (DOMAIN edges)
          /\ \A u \in DOMAIN edges :
                /\ ret.res.graph.edges[<<0, u>>]
                       = Link(<<0, u>>, edges[u].xid, edges[u].yid, edges[u].data)
                /\ ret.res.graph.edges[<<1, u>>]
                       = Link(<<1, u>>, edges[u].yid, edges[u].xid, edges[u].data)

====
